---- MODULE Spec2Model ----
(***************************************************************************)
(* User management backend (Koa + Sequelize/SQLite): validation layer,     *)
(* UserRepository, UserService and UserController, modelled as a state     *)
(* machine over the `users` table.                                         *)
(*                                                                         *)
(* Strings are sequences of one-character strings, so that the regular     *)
(* expressions of the validation layer and String.prototype.toLowerCase    *)
(* are computed character by character.  A JavaScript object is a function *)
(* whose DOMAIN is the set of keys the object has (an absent key is        *)
(* `undefined`).  Messages are ASCII renderings of the source's Chinese    *)
(* literals; the original literal is given in the comment beside each.     *)
(***************************************************************************)
EXTENDS Integers, Sequences, FiniteSets, TLC

VARIABLES
  rows,     \* the users table: primary key |-> row (soft-deleted rows included)
  nextId,   \* the next AUTOINCREMENT key
  last,     \* the request served last: its operation, arguments and answer
  pending,  \* requests suspended at an await between their check and their write
  ctx,      \* the Koa context of the request the middleware chain handled last
  users,    \* `users` of controllers/userController.js, the in-memory list
  demoNextId, \* `nextId` of controllers/userController.js
  steps     \* the calls initializeDatabase has made, with what it returned

vars == <<rows, nextId, last, pending, ctx, users, demoNextId, steps>>

-----------------------------------------------------------------------------
(* Bounds of the model *)

\* largest primary key the table hands out (ids are 1..MaxId)
MaxId == 2
\* timestamps returned by new Date() are 1..MaxTime
MaxTime == 1
\* login_count values kept in the table are 0..MaxLogin
MaxLogin == 2
\* rows the paging specification seeds, and the pages it asks for
MaxSeeded == 5
MaxPage == 3
MaxPending == 1

\* a DATE column that is NULL
NoTime == 0
\* a STRING column that is NULL
NoIp == "null"

-----------------------------------------------------------------------------
(* Characters and strings *)

LowerLetters == <<"a","b","c","d","e","f","g","h","i","j","k","l","m",
                  "n","o","p","q","r","s","t","u","v","w","x","y","z">>
UpperLetters == <<"A","B","C","D","E","F","G","H","I","J","K","L","M",
                  "N","O","P","Q","R","S","T","U","V","W","X","Y","Z">>
Digits == {"0","1","2","3","4","5","6","7","8","9"}
SpecialChars == {"@","$","!","%","*","?","&"}
Whitespace == {" "}

Range(s) == {s[i] : i \in DOMAIN s}
LowerSet == Range(LowerLetters)
UpperSet == Range(UpperLetters)
IsLower(c) == c \in LowerSet
IsUpper(c) == c \in UpperSet
IsDigit(c) == c \in Digits

\* String.prototype.toLowerCase, one character
LowerOf ==
  [c \in UpperSet |-> LowerLetters[CHOOSE i \in DOMAIN UpperLetters : UpperLetters[i] = c]]
ToLowerChar(c) == IF IsUpper(c) THEN LowerOf[c] ELSE c

\* String.prototype.toLowerCase
ToLowerCase(s) == [i \in DOMAIN s |-> ToLowerChar(s[i])]

-----------------------------------------------------------------------------
(* Validation layer (user.validation.js) *)

UsernameMinLen == 3
UsernameMaxLen == 50
EmailMaxLen == 100
PasswordMinLen == 6
PasswordMaxLen == 128

\* /^[a-zA-Z0-9_]+$/
MatchesUsernameChars(s) ==
  Len(s) > 0 /\ \A i \in DOMAIN s : IsLower(s[i]) \/ IsUpper(s[i]) \/ IsDigit(s[i]) \/ s[i] = "_"

\* /^[^\s@]+@[^\s@]+\.[^\s@]+$/
MatchesEmailRegex(s) ==
  /\ \A i \in DOMAIN s : s[i] \notin Whitespace
  /\ Cardinality({i \in DOMAIN s : s[i] = "@"}) = 1
  /\ LET at == CHOOSE i \in DOMAIN s : s[i] = "@"
     IN /\ at > 1
        /\ \E dot \in DOMAIN s : s[dot] = "." /\ dot > at + 1 /\ dot < Len(s)

\* validateUsername: the list of error messages
validateUsername(d) ==
  IF "username" \notin DOMAIN d \/ d.username = <<>>
    THEN <<"username required">>                      \* 用户名不能为空
    ELSE (IF Len(d.username) < UsernameMinLen THEN <<"username too short">> ELSE <<>>)
      \o (IF Len(d.username) > UsernameMaxLen THEN <<"username too long">> ELSE <<>>)
      \o (IF ~MatchesUsernameChars(d.username) THEN <<"username charset">> ELSE <<>>)
      \o (IF IsDigit(d.username[1]) THEN <<"username starts with digit">> ELSE <<>>)

\* validateEmail: the list of error messages
validateEmail(d) ==
  IF "email" \notin DOMAIN d \/ d.email = <<>>
    THEN <<"email required">>                         \* 邮箱地址不能为空
    ELSE (IF ~MatchesEmailRegex(d.email) THEN <<"email format">> ELSE <<>>)
      \o (IF Len(d.email) > EmailMaxLen THEN <<"email too long">> ELSE <<>>)

\* validatePassword: the list of error messages
validatePassword(d) ==
  IF "password" \notin DOMAIN d \/ d.password = <<>>
    THEN <<"password required">>                      \* 密码不能为空
    ELSE (IF Len(d.password) < PasswordMinLen THEN <<"password too short">> ELSE <<>>)
      \o (IF Len(d.password) > PasswordMaxLen THEN <<"password too long">> ELSE <<>>)
      \o (IF ~\E i \in DOMAIN d.password : IsLower(d.password[i]) THEN <<"password needs lowercase">> ELSE <<>>)
      \o (IF ~\E i \in DOMAIN d.password : IsUpper(d.password[i]) THEN <<"password needs uppercase">> ELSE <<>>)
      \o (IF ~\E i \in DOMAIN d.password : IsDigit(d.password[i]) THEN <<"password needs digit">> ELSE <<>>)
      \o (IF ~\E i \in DOMAIN d.password : d.password[i] \in SpecialChars THEN <<"password needs special">> ELSE <<>>)

ValidStatuses == {"active", "inactive", "suspended", "deleted"}

\* validateStatus: the list of error messages
validateStatus(d) ==
  IF "status" \in DOMAIN d /\ d.status # "" /\ d.status \notin ValidStatuses
    THEN <<"status invalid">>                         \* 用户状态值不正确
    ELSE <<>>

\* validateUserCreation: username, email and password are required
validateUserCreation(d) ==
  validateUsername(d) \o validateEmail(d) \o validatePassword(d)

\* validateUserUpdate: every field is optional, only present keys are checked
validateUserUpdate(d) ==
     (IF "username" \in DOMAIN d THEN validateUsername(d) ELSE <<>>)
  \o (IF "email" \in DOMAIN d THEN validateEmail(d) ELSE <<>>)
  \o (IF "password" \in DOMAIN d THEN validatePassword(d) ELSE <<>>)
  \o (IF "status" \in DOMAIN d THEN validateStatus(d) ELSE <<>>)

-----------------------------------------------------------------------------
(* The users table: Sequelize model User on SQLite (user.model.js, db.config) *)

\* The columns of User that the model keeps (the primary key apart).
ModelAttrs ==
  {"username", "email", "password_hash", "full_name", "status", "email_verified",
   "email_verified_at", "last_login_at", "last_login_ip", "login_count"}

\* A column of type STRING that is NULL
NoName == <<>>

\* defaultValue of each column; a column without one is NULL
ColumnDefaults ==
  [full_name |-> NoName, status |-> "active", email_verified |-> FALSE,
   email_verified_at |-> NoTime, last_login_at |-> NoTime, last_login_ip |-> NoIp,
   login_count |-> 0]

\* The keys of a JavaScript object restricted to / without some keys
Pick(d, ks) == [k \in DOMAIN d \cap ks |-> d[k]]
Omit(d, ks) == [k \in DOMAIN d \ ks |-> d[k]]
\* { ...d, ...e }: the keys of e override those of d
Spread(d, e) == [k \in DOMAIN d \cup DOMAIN e |-> IF k \in DOMAIN e THEN e[k] ELSE d[k]]

Max(S) == CHOOSE x \in S : \A y \in S : y <= x

\* paranoid: true -- a row is visible to find/update unless deleted_at is set
Visible(db) == {i \in DOMAIN db.rows : db.rows[i].deleted_at = NoTime}

\* The values new Date() may return: the clock never runs behind a stored time
Stamps(db) ==
  {db.rows[i].deleted_at : i \in DOMAIN db.rows}
    \cup {db.rows[i].email_verified_at : i \in DOMAIN db.rows}
    \cup {db.rows[i].last_login_at : i \in DOMAIN db.rows}
Clock(db) == {t \in 1..MaxTime : \A s \in Stamps(db) : s <= t}

\* validator.js isAlphanumeric
IsAlphanumeric(s) ==
  Len(s) > 0 /\ \A i \in DOMAIN s : IsLower(s[i]) \/ IsUpper(s[i]) \/ IsDigit(s[i])

\* validator.js isEmail on the addresses of the model: the service's pattern,
\* and a top-level domain of two letters or more
IsEmail(s) ==
  /\ MatchesEmailRegex(s)
  /\ LET dot == Max({i \in DOMAIN s : s[i] = "."})
     IN /\ Len(s) - dot >= 2
        /\ \A i \in (dot + 1)..Len(s) : IsLower(s[i]) \/ IsUpper(s[i])

ValidIps == {"10.0.0.1", "10.0.0.2"}
\* validator.js isIP
IsIP(s) == s \in ValidIps

HashMinLen == 6
HashMaxLen == 255

\* The `validate` rules of the columns, on the columns that `values` has
ModelValidationFails(values) ==
  \/ /\ "username" \in DOMAIN values
     /\ \/ Len(values.username) < UsernameMinLen
        \/ Len(values.username) > UsernameMaxLen
        \/ ~IsAlphanumeric(values.username)
  \/ "email" \in DOMAIN values /\ ~IsEmail(values.email)
  \/ /\ "password_hash" \in DOMAIN values
     /\ \/ Len(values.password_hash) < HashMinLen
        \/ Len(values.password_hash) > HashMaxLen
  \/ /\ "last_login_ip" \in DOMAIN values
     /\ values.last_login_ip # NoIp
     /\ ~IsIP(values.last_login_ip)

\* (mutant) unique indexes that leave soft-deleted rows out
UniqueViolationAmongVisible(db, values, self) ==
  \E j \in Visible(db) \ {self} :
    \/ "username" \in DOMAIN values /\ db.rows[j].username = values.username
    \/ "email" \in DOMAIN values /\ db.rows[j].email = values.email

\* (mutant) a table without unique indexes
UniqueViolationNever(db, values, self) == FALSE

\* The unique indexes on username and on email cover every row of the table,
\* soft-deleted rows included; `self` is the row being written (0 on insert)
UniqueViolation(db, values, self) ==
  \E j \in DOMAIN db.rows \ {self} :
    \/ "username" \in DOMAIN values /\ db.rows[j].username = values.username
    \/ "email" \in DOMAIN values /\ db.rows[j].email = values.email

\* What a data-store call answers: it threw `error`, or returned `value`
\* (a sequence: <<>> is null) and left the table as `db`
Threw(db, error) == [threw |-> TRUE, error |-> error, value |-> <<>>, db |-> db]
Returned(db, value) == [threw |-> FALSE, error |-> "", value |-> value, db |-> db]

\* hooks.beforeCreate: the email is lowercased
beforeCreate(values) ==
  IF "email" \in DOMAIN values /\ values.email # <<>>
    THEN Spread(values, [email |-> ToLowerCase(values.email)])
    ELSE values

\* User.create(values): defaults, validation, the hook, INSERT under the
\* unique indexes; the key is the next AUTOINCREMENT value
User_create(db, values) ==
  LET given == Pick(values, ModelAttrs)
      built == Spread(ColumnDefaults, given)
      hooked == beforeCreate(built)
      row == Spread(hooked, [id |-> db.nextId, deleted_at |-> NoTime])
  IN IF {"username", "email", "password_hash"} \ DOMAIN given # {}
       THEN Threw(db, "notNull Violation")
     ELSE IF ModelValidationFails(built)
       THEN Threw(db, "Validation error")
     ELSE IF UniqueViolation(db, hooked, 0)
       THEN Threw(db, "Validation error")
     ELSE Returned([rows |-> (db.nextId :> row) @@ db.rows, nextId |-> db.nextId + 1],
                   <<row>>)

\* User.findByPk(id) under paranoid
User_findByPk(db, id) ==
  IF id \in Visible(db) THEN Returned(db, <<db.rows[id]>>) ELSE Returned(db, <<>>)

\* The rows (soft-deleted ones included) that satisfy a where clause
Where(db, Matches(_)) == {i \in DOMAIN db.rows : Matches(db.rows[i])}

\* User.findOne({ where }): the first visible row among `matching`, the rows
\* that satisfy the where clause
User_findOne(db, matching) ==
  LET hits == Visible(db) \cap matching
  IN IF hits = {} THEN Returned(db, <<>>)
     ELSE Returned(db, <<db.rows[CHOOSE i \in hits : \A j \in hits : i <= j]>>)

\* User.update(values, { where: { id } }): validates the given columns, then
\* UPDATE ... WHERE id = ? AND deleted_at IS NULL; the value is the row count
User_update(db, id, values) ==
  LET given == Pick(values, ModelAttrs)
  IN IF ModelValidationFails(given)
       THEN Threw(db, "Validation error")
     ELSE IF id \notin Visible(db)
       THEN Returned(db, <<0>>)
     ELSE IF UniqueViolation(db, given, id)
       THEN Threw(db, "Validation error")
     ELSE Returned([db EXCEPT !.rows[id] = Spread(@, given)], <<1>>)


\* instance.destroy() of a paranoid model: deleted_at = now
User_destroy(db, id, now) ==
  IF id \in DOMAIN db.rows
    THEN Returned([db EXCEPT !.rows[id].deleted_at = now], <<1>>)
    ELSE Returned(db, <<0>>)

\* (mutant) a forced destroy that keeps the paranoid scope
User_destroyForceVisibleOnly(db, id) ==
  IF id \in Visible(db)
    THEN Returned([db EXCEPT !.rows = [i \in DOMAIN db.rows \ {id} |-> db.rows[i]]], <<1>>)
    ELSE Returned(db, <<0>>)

\* User.destroy({ where: { id }, force: true }): DELETE FROM users WHERE id = ?
User_destroyForce(db, id) ==
  IF id \in DOMAIN db.rows
    THEN Returned([db EXCEPT !.rows = [i \in DOMAIN db.rows \ {id} |-> db.rows[i]]], <<1>>)
    ELSE Returned(db, <<0>>)

\* User.findByPk(id, { paranoid: false })
User_findByPkParanoidOff(db, id) ==
  IF id \in DOMAIN db.rows THEN Returned(db, <<db.rows[id]>>) ELSE Returned(db, <<>>)

\* (mutant) a restore that also resets the status
User_restoreActivates(db, id) ==
  IF id \in DOMAIN db.rows
    THEN Returned([db EXCEPT !.rows[id].deleted_at = NoTime, !.rows[id].status = "active"], <<1>>)
    ELSE Returned(db, <<0>>)

\* instance.restore(): deleted_at = NULL
User_restore(db, id) ==
  IF id \in DOMAIN db.rows
    THEN Returned([db EXCEPT !.rows[id].deleted_at = NoTime], <<1>>)
    ELSE Returned(db, <<0>>)

\* instance.save() after fields were assigned: validates the changed columns,
\* then UPDATE ... WHERE id = ?
User_save(db, id, changed) ==
  IF ModelValidationFails(changed)
    THEN Threw(db, "Validation error")
  ELSE IF id \notin DOMAIN db.rows
    THEN Returned(db, <<0>>)
  ELSE IF UniqueViolation(db, changed, id)
    THEN Threw(db, "Validation error")
  ELSE Returned([db EXCEPT !.rows[id] = Spread(@, changed)], <<1>>)

-----------------------------------------------------------------------------
(* UserRepository (user.repository.js): each method wraps what its store *)
(* call throws into an Error with the method's prefix                     *)

\* A data-store call that fails for a reason of its own (I/O, a lost connection)
StoreFailure == "SQLITE_ERROR"

\* catch (error) { throw new Error(`<prefix>: ${error.message}`) }
Wrap(prefix, r) == IF r.threw THEN Threw(r.db, prefix \o ": " \o r.error) ELSE r

\* create
repo_create(db, userData, fails) ==
  Wrap("create user failed",                          \* 创建用户失败
       IF fails THEN Threw(db, StoreFailure) ELSE User_create(db, userData))

\* findById
repo_findById(db, id, fails) ==
  Wrap("find user by id failed",                      \* 根据ID查找用户失败
       IF fails THEN Threw(db, StoreFailure) ELSE User_findByPk(db, id))

\* findByUsername
repo_findByUsername(db, username, fails) ==
  LET Matches(r) == r.username = username
  IN Wrap("find user by username failed",             \* 根据用户名查找用户失败
          IF fails THEN Threw(db, StoreFailure) ELSE User_findOne(db, Where(db, Matches)))

\* findByUsernameOrEmail: username = identifier OR email = lower(identifier)
repo_findByUsernameOrEmail(db, identifier, fails) ==
  LET Matches(r) == r.username = identifier \/ r.email = ToLowerCase(identifier)
  IN Wrap("find user by username or email failed",    \* 根据用户名或邮箱查找用户失败
          IF fails THEN Threw(db, StoreFailure) ELSE User_findOne(db, Where(db, Matches)))

\* update: User.update, null when no row was updated, else findById
repo_update(db, id, updateData, fails, refails) ==
  LET u == IF fails THEN Threw(db, StoreFailure) ELSE User_update(db, id, updateData)
  IN IF u.threw THEN Wrap("update user failed", u)    \* 更新用户失败
     ELSE IF u.value = <<0>> THEN Returned(u.db, <<>>)
     ELSE Wrap("update user failed", repo_findById(u.db, id, refails))

\* (mutant) a softDelete that looks the row up with paranoid off
repo_softDeleteFindsDeleted(db, id, now, fails, refails) ==
  LET f == IF fails THEN Threw(db, StoreFailure) ELSE User_findByPkParanoidOff(db, id)
  IN IF f.threw THEN Wrap("soft delete user failed", f)
     ELSE IF f.value = <<>> THEN Returned(db, <<FALSE>>)
     ELSE LET x == IF refails THEN Threw(db, StoreFailure) ELSE User_destroy(db, id, now)
          IN IF x.threw THEN Wrap("soft delete user failed", x)
             ELSE Returned(x.db, <<TRUE>>)

\* softDelete: findById, false when absent, else destroy()
repo_softDelete(db, id, now, fails, refails) ==
  LET f == repo_findById(db, id, fails)
  IN IF f.threw THEN Wrap("soft delete user failed", f)     \* 软删除用户失败
     ELSE IF f.value = <<>> THEN Returned(db, <<FALSE>>)
     ELSE LET x == IF refails THEN Threw(db, StoreFailure) ELSE User_destroy(db, id, now)
          IN IF x.threw THEN Wrap("soft delete user failed", x)
             ELSE Returned(x.db, <<TRUE>>)

\* hardDelete: deletedRowsCount > 0
repo_hardDelete(db, id, fails) ==
  LET x == IF fails THEN Threw(db, StoreFailure) ELSE User_destroyForce(db, id)
  IN IF x.threw THEN Wrap("hard delete user failed", x)     \* 硬删除用户失败
     ELSE Returned(x.db, <<x.value[1] > 0>>)

\* restore: findByPk with paranoid off, null when absent, else restore()
repo_restore(db, id, fails) ==
  LET f == IF fails THEN Threw(db, StoreFailure) ELSE User_findByPkParanoidOff(db, id)
  IN IF f.threw THEN Wrap("restore user failed", f)          \* 恢复用户失败
     ELSE IF f.value = <<>> THEN Returned(db, <<>>)
     ELSE LET x == User_restore(db, id)
          IN Returned(x.db, <<x.db.rows[id]>>)

\* (mutant) a check that looks the username up in the email column
repo_isUsernameExistsWrongColumn(db, username, excludeId, fails) ==
  LET Matches(r) == r.email = username /\ (excludeId # 0 => r.id # excludeId)
      f == IF fails THEN Threw(db, StoreFailure) ELSE User_findOne(db, Where(db, Matches))
  IN IF f.threw THEN Wrap("check username failed", f)
     ELSE Returned(db, <<f.value # <<>>>>)

\* isUsernameExists(username, excludeId)
repo_isUsernameExists(db, username, excludeId, fails) ==
  LET Matches(r) == r.username = username /\ (excludeId # 0 => r.id # excludeId)
      f == IF fails THEN Threw(db, StoreFailure) ELSE User_findOne(db, Where(db, Matches))
  IN IF f.threw THEN Wrap("check username failed", f)        \* 检查用户名是否存在失败
     ELSE Returned(db, <<f.value # <<>>>>)

\* (mutant) a uniqueness check of the email as it was sent, not lowercased
repo_isEmailExistsKeepsCase(db, email, excludeId, fails) ==
  LET Matches(r) == r.email = email /\ (excludeId # 0 => r.id # excludeId)
      f == IF fails THEN Threw(db, StoreFailure) ELSE User_findOne(db, Where(db, Matches))
  IN IF f.threw THEN Wrap("check email failed", f)
     ELSE Returned(db, <<f.value # <<>>>>)

\* isEmailExists(email, excludeId): compares with the lowercased email
repo_isEmailExists(db, email, excludeId, fails) ==
  LET Matches(r) == r.email = ToLowerCase(email) /\ (excludeId # 0 => r.id # excludeId)
      f == IF fails THEN Threw(db, StoreFailure) ELSE User_findOne(db, Where(db, Matches))
  IN IF f.threw THEN Wrap("check email failed", f)           \* 检查邮箱是否存在失败
     ELSE Returned(db, <<f.value # <<>>>>)

-----------------------------------------------------------------------------
(* bcrypt *)

\* const saltRounds = 12
SaltRounds == 12
CostTag == "12"

\* bcrypt.hash(password, saltRounds): "$2b$" cost salt digest.  The digest is
\* carried as the password it was computed from, which is all compare reads.
bcrypt_hash(password, salt) == <<"$2b$", CostTag, salt>> \o password

IsBcryptHash(h) == Len(h) > 3 /\ h[1] = "$2b$"

\* bcrypt.compare(password, hash): false for a string that is no bcrypt hash
bcrypt_compare(password, hash) ==
  IsBcryptHash(hash) /\ SubSeq(hash, 4, Len(hash)) = password

-----------------------------------------------------------------------------
(* UserService (user.service.js) *)

\* The uniform result of a service method; data is a sequence (<<>>: none)
Res(success, message, errors, data) ==
  [success |-> success, message |-> message, errors |-> errors, data |-> data]

\* What a service method leaves behind: the table, its result, and the object
\* it handed to userRepository.create / update (<<>>: none was handed).
\* threw: an exception left the method instead of a result
Out(db, result, handed) ==
  [db |-> db, result |-> result, handed |-> handed, threw |-> FALSE]

\* (mutant) a public view that carries the password hash
getPublicInfoWithHash(user) ==
  Pick(user, {"id", "username", "email", "full_name", "status", "email_verified",
              "password_hash"})

\* User.prototype.getPublicInfo
getPublicInfo(user) ==
  Pick(user, {"id", "username", "email", "full_name", "status", "email_verified"})

\* what reading a property of null throws
NullDeref == "Cannot read properties of null"

\* The data-store calls of a request, by call site; `fault` names the one
\* that fails ("none": the store answers every call)
NoFault == "none"

\* (mutant) a createUser that stores the password as it was sent
createUserStoresPassword(db, userData, salt, fault) ==
  LET errs == validateUserCreation(userData)
      u == repo_isUsernameExists(db, userData.username, 0, fault = "isUsernameExists")
      e == repo_isEmailExists(db, userData.email, 0, fault = "isEmailExists")
      userDataToCreate ==
        Omit(Spread(userData, [password_hash |-> userData.password,
                               email |-> ToLowerCase(userData.email)]),
             {"password"})
      c == repo_create(db, userDataToCreate, fault = "create")
      Caught(r) == Res(FALSE, "create user failed", <<r.error>>, <<>>)
  IN IF errs # <<>>
       THEN Out(db, Res(FALSE, "validation failed", errs, <<>>), <<>>)
     ELSE IF u.threw THEN Out(db, Caught(u), <<>>)
     ELSE IF u.value[1]
       THEN Out(db, Res(FALSE, "username exists", <<"username already in use">>, <<>>), <<>>)
     ELSE IF e.threw THEN Out(db, Caught(e), <<>>)
     ELSE IF e.value[1]
       THEN Out(db, Res(FALSE, "email exists", <<"email already in use">>, <<>>), <<>>)
     ELSE IF c.threw THEN Out(c.db, Caught(c), <<userDataToCreate>>)
     ELSE Out(c.db, Res(TRUE, "user created", <<>>, <<getPublicInfo(c.value[1])>>),
              <<userDataToCreate>>)

\* (mutant) a createUser that looks for the email before the username
createUserChecksEmailFirst(db, userData, salt, fault) ==
  LET errs == validateUserCreation(userData)
      u == repo_isUsernameExists(db, userData.username, 0, fault = "isUsernameExists")
      e == repo_isEmailExists(db, userData.email, 0, fault = "isEmailExists")
      userDataToCreate ==
        Omit(Spread(userData, [password_hash |-> bcrypt_hash(userData.password, salt),
                               email |-> ToLowerCase(userData.email)]),
             {"password"})
      c == repo_create(db, userDataToCreate, fault = "create")
      Caught(r) == Res(FALSE, "create user failed", <<r.error>>, <<>>)
  IN IF errs # <<>>
       THEN Out(db, Res(FALSE, "validation failed", errs, <<>>), <<>>)
     ELSE IF e.threw THEN Out(db, Caught(e), <<>>)
     ELSE IF e.value[1]
       THEN Out(db, Res(FALSE, "email exists", <<"email already in use">>, <<>>), <<>>)
     ELSE IF u.threw THEN Out(db, Caught(u), <<>>)
     ELSE IF u.value[1]
       THEN Out(db, Res(FALSE, "username exists", <<"username already in use">>, <<>>), <<>>)
     ELSE IF c.threw THEN Out(c.db, Caught(c), <<userDataToCreate>>)
     ELSE Out(c.db, Res(TRUE, "user created", <<>>, <<getPublicInfo(c.value[1])>>),
              <<userDataToCreate>>)

\* createUser(userData)
createUser(db, userData, salt, fault) ==
  LET errs == validateUserCreation(userData)
      u == repo_isUsernameExists(db, userData.username, 0, fault = "isUsernameExists")
      e == repo_isEmailExists(db, userData.email, 0, fault = "isEmailExists")
      userDataToCreate ==
        Omit(Spread(userData, [password_hash |-> bcrypt_hash(userData.password, salt),
                               email |-> ToLowerCase(userData.email)]),
             {"password"})
      c == repo_create(db, userDataToCreate, fault = "create")
      Caught(r) == Res(FALSE, "create user failed", <<r.error>>, <<>>)   \* 创建用户失败
  IN IF errs # <<>>
       THEN Out(db, Res(FALSE, "validation failed", errs, <<>>), <<>>)    \* 数据验证失败
     ELSE IF u.threw THEN Out(db, Caught(u), <<>>)
     ELSE IF u.value[1]                                                   \* 用户名已存在
       THEN Out(db, Res(FALSE, "username exists", <<"username already in use">>, <<>>), <<>>)
     ELSE IF e.threw THEN Out(db, Caught(e), <<>>)
     ELSE IF e.value[1]                                                   \* 邮箱已存在
       THEN Out(db, Res(FALSE, "email exists", <<"email already in use">>, <<>>), <<>>)
     ELSE IF c.threw THEN Out(c.db, Caught(c), <<userDataToCreate>>)
     ELSE Out(c.db, Res(TRUE, "user created", <<>>, <<getPublicInfo(c.value[1])>>),  \* 用户创建成功
              <<userDataToCreate>>)

\* createUser(userData) up to `await userRepository.isEmailExists`: the
\* validation and the username check.  done: the method returned here
createUserCheckUsername(db, userData, fault) ==
  LET errs == validateUserCreation(userData)
      u == repo_isUsernameExists(db, userData.username, 0, fault = "isUsernameExists")
      Caught(r) == Res(FALSE, "create user failed", <<r.error>>, <<>>)
      Done(result) == [done |-> TRUE, result |-> result]
  IN IF errs # <<>> THEN Done(Res(FALSE, "validation failed", errs, <<>>))
     ELSE IF u.threw THEN Done(Caught(u))
     ELSE IF u.value[1]
       THEN Done(Res(FALSE, "username exists", <<"username already in use">>, <<>>))
     ELSE [done |-> FALSE, result |-> Res(TRUE, "", <<>>, <<>>)]

\* createUser(userData) from the email check up to `await bcrypt.hash`
createUserCheckEmail(db, userData, fault) ==
  LET e == repo_isEmailExists(db, userData.email, 0, fault = "isEmailExists")
      Caught(r) == Res(FALSE, "create user failed", <<r.error>>, <<>>)
      Done(result) == [done |-> TRUE, result |-> result]
  IN IF e.threw THEN Done(Caught(e))
     ELSE IF e.value[1]
       THEN Done(Res(FALSE, "email exists", <<"email already in use">>, <<>>))
     ELSE [done |-> FALSE, result |-> Res(TRUE, "", <<>>, <<>>)]

\* createUser(userData) from bcrypt.hash on: the insert
createUserWrite(db, userData, salt, fault) ==
  LET userDataToCreate ==
        Omit(Spread(userData, [password_hash |-> bcrypt_hash(userData.password, salt),
                               email |-> ToLowerCase(userData.email)]),
             {"password"})
      c == repo_create(db, userDataToCreate, fault = "create")
  IN IF c.threw
       THEN Out(c.db, Res(FALSE, "create user failed", <<c.error>>, <<>>), <<userDataToCreate>>)
     ELSE Out(c.db, Res(TRUE, "user created", <<>>, <<getPublicInfo(c.value[1])>>),
              <<userDataToCreate>>)

\* getUserById(id, includePrivate)
getUserById(db, id, includePrivate, fault) ==
  LET f == repo_findById(db, id, fault = "findById")
  IN IF f.threw
       THEN Out(db, Res(FALSE, "get user failed", <<f.error>>, <<>>), <<>>)   \* 获取用户信息失败
     ELSE IF f.value = <<>>
       THEN Out(db, Res(FALSE, "user not found", <<>>, <<>>), <<>>)           \* 用户不存在
     ELSE Out(db, Res(TRUE, "got user", <<>>,                                 \* 获取用户信息成功
                      <<IF includePrivate THEN f.value[1] ELSE getPublicInfo(f.value[1])>>), <<>>)

\* getUserByUsername(username)
getUserByUsername(db, username, fault) ==
  LET f == repo_findByUsername(db, username, fault = "findByUsername")
  IN IF f.threw
       THEN Out(db, Res(FALSE, "get user failed", <<f.error>>, <<>>), <<>>)
     ELSE IF f.value = <<>>
       THEN Out(db, Res(FALSE, "user not found", <<>>, <<>>), <<>>)
     ELSE Out(db, Res(TRUE, "got user", <<>>, <<getPublicInfo(f.value[1])>>), <<>>)

\* updateUser(id, updateData), steps 1-4: validation, the existence check and
\* the uniqueness checks.  done: the method returned here
updateUserCheck(db, id, updateData, fault) ==
  LET errs == validateUserUpdate(updateData)
      f == repo_findById(db, id, fault = "findById")
      existingUser == f.value[1]
      u == repo_isUsernameExists(db, updateData.username, id, fault = "isUsernameExists")
      e == repo_isEmailExists(db, updateData.email, id, fault = "isEmailExists")
      Caught(r) == Res(FALSE, "update user info failed", <<r.error>>, <<>>)   \* 更新用户信息失败
      Done(result) == [done |-> TRUE, result |-> result]
      usernameChanges ==
        /\ "username" \in DOMAIN updateData
        /\ updateData.username # <<>>
        /\ updateData.username # existingUser.username
      emailChanges ==
        /\ "email" \in DOMAIN updateData
        /\ updateData.email # <<>>
        /\ ToLowerCase(updateData.email) # existingUser.email
  IN IF errs # <<>> THEN Done(Res(FALSE, "validation failed", errs, <<>>))
     ELSE IF f.threw THEN Done(Caught(f))
     ELSE IF f.value = <<>>                                                \* 用户不存在
       THEN Done(Res(FALSE, "user not found", <<"the given user does not exist">>, <<>>))
     ELSE IF usernameChanges /\ u.threw THEN Done(Caught(u))
     ELSE IF usernameChanges /\ u.value[1]
       THEN Done(Res(FALSE, "username exists", <<"username used by another user">>, <<>>))
     ELSE IF emailChanges /\ e.threw THEN Done(Caught(e))
     ELSE IF emailChanges /\ e.value[1]
       THEN Done(Res(FALSE, "email exists", <<"email used by another user">>, <<>>))
     ELSE [done |-> FALSE, result |-> Res(TRUE, "", <<>>, <<>>)]

\* (mutant) an update that stores the email as it was sent
updateUserWriteKeepsCase(db, id, updateData, salt, fault) ==
  LET dataToUpdate ==
        IF "password" \in DOMAIN updateData /\ updateData.password # <<>>
          THEN Omit(Spread(updateData, [password_hash |-> bcrypt_hash(updateData.password, salt)]),
                    {"password"})
          ELSE updateData
      w == repo_update(db, id, dataToUpdate, fault = "update", fault = "refind")
      Caught(error) == Res(FALSE, "update user info failed", <<error>>, <<>>)
  IN IF w.threw THEN Out(w.db, Caught(w.error), <<dataToUpdate>>)
     ELSE IF w.value = <<>> THEN Out(w.db, Caught(NullDeref), <<dataToUpdate>>)
     ELSE Out(w.db, Res(TRUE, "user updated", <<>>, <<getPublicInfo(w.value[1])>>),
              <<dataToUpdate>>)

\* (mutant) an update whose read of the updated user sits outside the try
updateUserWriteUnguarded(db, id, updateData, salt, fault) ==
  LET hashed ==
        IF "password" \in DOMAIN updateData /\ updateData.password # <<>>
          THEN Omit(Spread(updateData, [password_hash |-> bcrypt_hash(updateData.password, salt)]),
                    {"password"})
          ELSE updateData
      dataToUpdate ==
        IF "email" \in DOMAIN hashed /\ hashed.email # <<>>
          THEN Spread(hashed, [email |-> ToLowerCase(hashed.email)])
          ELSE hashed
      w == repo_update(db, id, dataToUpdate, fault = "update", fault = "refind")
      Caught(error) == Res(FALSE, "update user info failed", <<error>>, <<>>)
  IN IF w.threw THEN Out(w.db, Caught(w.error), <<dataToUpdate>>)
     ELSE IF w.value = <<>>
       THEN [Out(w.db, Caught(NullDeref), <<dataToUpdate>>) EXCEPT !.threw = TRUE]
     ELSE Out(w.db, Res(TRUE, "user updated", <<>>, <<getPublicInfo(w.value[1])>>),
              <<dataToUpdate>>)

\* updateUser(id, updateData), steps 5-7: hash the password, lowercase the
\* email, userRepository.update, the public view of what it returned
updateUserWrite(db, id, updateData, salt, fault) ==
  LET hashed ==
        IF "password" \in DOMAIN updateData /\ updateData.password # <<>>
          THEN Omit(Spread(updateData, [password_hash |-> bcrypt_hash(updateData.password, salt)]),
                    {"password"})
          ELSE updateData
      dataToUpdate ==
        IF "email" \in DOMAIN hashed /\ hashed.email # <<>>
          THEN Spread(hashed, [email |-> ToLowerCase(hashed.email)])
          ELSE hashed
      w == repo_update(db, id, dataToUpdate, fault = "update", fault = "refind")
      Caught(error) == Res(FALSE, "update user info failed", <<error>>, <<>>)
  IN IF w.threw THEN Out(w.db, Caught(w.error), <<dataToUpdate>>)
     ELSE IF w.value = <<>> THEN Out(w.db, Caught(NullDeref), <<dataToUpdate>>)
     ELSE Out(w.db, Res(TRUE, "user updated", <<>>, <<getPublicInfo(w.value[1])>>),  \* 用户信息更新成功
              <<dataToUpdate>>)

\* updateUser(id, updateData) run without another request in between
updateUser(db, id, updateData, salt, fault) ==
  LET c == updateUserCheck(db, id, updateData, fault)
  IN IF c.done THEN Out(db, c.result, <<>>)
     ELSE updateUserWrite(db, id, updateData, salt, fault)

\* (mutant) a deleteUser that purges the row when it is already soft-deleted
deleteUserPurges(db, id, now, fault) ==
  LET x == repo_softDelete(db, id, now, fault = "findById", fault = "destroy")
      h == repo_hardDelete(db, id, FALSE)
  IN IF x.threw
       THEN Out(x.db, Res(FALSE, "delete user failed", <<x.error>>, <<>>), <<>>)
     ELSE IF ~x.value[1]
       THEN Out(h.db, Res(FALSE, "user not found", <<"the given user does not exist">>, <<>>), <<>>)
     ELSE Out(x.db, Res(TRUE, "user deleted", <<>>, <<>>), <<>>)

\* deleteUser(id)
deleteUser(db, id, now, fault) ==
  LET x == repo_softDelete(db, id, now, fault = "findById", fault = "destroy")
  IN IF x.threw
       THEN Out(x.db, Res(FALSE, "delete user failed", <<x.error>>, <<>>), <<>>)   \* 删除用户失败
     ELSE IF ~x.value[1]
       THEN Out(x.db, Res(FALSE, "user not found", <<"the given user does not exist">>, <<>>), <<>>)
     ELSE Out(x.db, Res(TRUE, "user deleted", <<>>, <<>>), <<>>)                  \* 用户删除成功


\* User.prototype.updateLastLogin(ip): the columns it assigns before save()
updateLastLogin(user, ip, now) ==
  Spread([last_login_at |-> now, login_count |-> user.login_count + 1],
         IF ip # NoIp THEN [last_login_ip |-> ip] ELSE <<>>)

\* (mutant) an authenticateUser that tells an unknown identifier apart
authenticateUserNamesUnknown(db, identifier, password, loginIp, now, fault) ==
  LET f == repo_findByUsernameOrEmail(db, identifier, fault = "findByUsernameOrEmail")
      user == f.value[1]
      changed == updateLastLogin(user, loginIp, now)
      s == IF fault = "save" THEN Threw(db, StoreFailure) ELSE User_save(db, user.id, changed)
      Caught(r) == Res(FALSE, "login failed", <<r.error>>, <<>>)
      Invalid == Res(FALSE, "wrong username or password", <<"invalid credentials">>, <<>>)
  IN IF f.threw THEN Out(db, Caught(f), <<>>)
     ELSE IF f.value = <<>>
       THEN Out(db, Res(FALSE, "user not found", <<"invalid credentials">>, <<>>), <<>>)
     ELSE IF user.status # "active"
       THEN Out(db, Res(FALSE, "account disabled", <<"account status abnormal">>, <<>>), <<>>)
     ELSE IF ~bcrypt_compare(password, user.password_hash) THEN Out(db, Invalid, <<>>)
     ELSE IF s.threw THEN Out(s.db, Caught(s), <<>>)
     ELSE Out(s.db, Res(TRUE, "login ok", <<>>,
                        <<getPublicInfo(Spread(user, changed))>>), <<>>)

\* (mutant) an authenticateUser that compares the password before it looks
\* at the status
authenticateUserComparesFirst(db, identifier, password, loginIp, now, fault) ==
  LET f == repo_findByUsernameOrEmail(db, identifier, fault = "findByUsernameOrEmail")
      user == f.value[1]
      changed == updateLastLogin(user, loginIp, now)
      s == IF fault = "save" THEN Threw(db, StoreFailure) ELSE User_save(db, user.id, changed)
      Caught(r) == Res(FALSE, "login failed", <<r.error>>, <<>>)
      Invalid == Res(FALSE, "wrong username or password", <<"invalid credentials">>, <<>>)
  IN IF f.threw THEN Out(db, Caught(f), <<>>)
     ELSE IF f.value = <<>> THEN Out(db, Invalid, <<>>)
     ELSE IF ~bcrypt_compare(password, user.password_hash) THEN Out(db, Invalid, <<>>)
     ELSE IF user.status # "active"
       THEN Out(db, Res(FALSE, "account disabled", <<"account status abnormal">>, <<>>), <<>>)
     ELSE IF s.threw THEN Out(s.db, Caught(s), <<>>)
     ELSE Out(s.db, Res(TRUE, "login ok", <<>>,
                        <<getPublicInfo(Spread(user, changed))>>), <<>>)

\* authenticateUser(identifier, password, loginIp)
authenticateUser(db, identifier, password, loginIp, now, fault) ==
  LET f == repo_findByUsernameOrEmail(db, identifier, fault = "findByUsernameOrEmail")
      user == f.value[1]
      changed == updateLastLogin(user, loginIp, now)
      s == IF fault = "save" THEN Threw(db, StoreFailure) ELSE User_save(db, user.id, changed)
      Caught(r) == Res(FALSE, "login failed", <<r.error>>, <<>>)            \* 登录失败
      Invalid == Res(FALSE, "wrong username or password",                   \* 用户名或密码错误
                     <<"invalid credentials">>, <<>>)                       \* 登录凭据无效
  IN IF f.threw THEN Out(db, Caught(f), <<>>)
     ELSE IF f.value = <<>> THEN Out(db, Invalid, <<>>)
     ELSE IF user.status # "active"                                         \* 账户已被禁用
       THEN Out(db, Res(FALSE, "account disabled", <<"account status abnormal">>, <<>>), <<>>)
     ELSE IF ~bcrypt_compare(password, user.password_hash) THEN Out(db, Invalid, <<>>)
     ELSE IF s.threw THEN Out(s.db, Caught(s), <<>>)
     ELSE Out(s.db, Res(TRUE, "login ok", <<>>,                             \* 登录成功
                        <<getPublicInfo(Spread(user, changed))>>), <<>>)

\* authenticateUser up to `await user.updateLastLogin(loginIp)`: the lookup,
\* the status and the password.  done: the method returned here; else user
\* is the instance that findByUsernameOrEmail loaded
authenticateUserCheck(db, identifier, password, fault) ==
  LET f == repo_findByUsernameOrEmail(db, identifier, fault = "findByUsernameOrEmail")
      user == f.value[1]
      Done(result) == [done |-> TRUE, result |-> result, user |-> <<>>]
      Invalid == Res(FALSE, "wrong username or password", <<"invalid credentials">>, <<>>)
  IN IF f.threw THEN Done(Res(FALSE, "login failed", <<f.error>>, <<>>))
     ELSE IF f.value = <<>> THEN Done(Invalid)
     ELSE IF user.status # "active"
       THEN Done(Res(FALSE, "account disabled", <<"account status abnormal">>, <<>>))
     ELSE IF ~bcrypt_compare(password, user.password_hash) THEN Done(Invalid)
     ELSE [done |-> FALSE, result |-> Res(TRUE, "", <<>>, <<>>), user |-> <<user>>]

\* authenticateUser from user.updateLastLogin on: the instance that was
\* loaded is counted up and saved, whatever the table holds by now
authenticateUserSave(db, user, loginIp, now, fault) ==
  LET changed == updateLastLogin(user, loginIp, now)
      s == IF fault = "save" THEN Threw(db, StoreFailure) ELSE User_save(db, user.id, changed)
  IN IF s.threw THEN Out(s.db, Res(FALSE, "login failed", <<s.error>>, <<>>), <<>>)
     ELSE Out(s.db, Res(TRUE, "login ok", <<>>,
                        <<getPublicInfo(Spread(user, changed))>>), <<>>)

\* deleteUser(id) up to `await user.destroy()` in userRepository.softDelete.
\* done: the method returned here
deleteUserCheck(db, id, fault) ==
  LET f == repo_findById(db, id, fault = "findById")
      Done(result) == [done |-> TRUE, result |-> result]
  IN IF f.threw
       THEN Done(Res(FALSE, "delete user failed",
                     <<Wrap("soft delete user failed", f).error>>, <<>>))
     ELSE IF f.value = <<>>
       THEN Done(Res(FALSE, "user not found", <<"the given user does not exist">>, <<>>))
     ELSE [done |-> FALSE, result |-> Res(TRUE, "", <<>>, <<>>)]

\* deleteUser(id) from user.destroy() on: the instance that was loaded sets
\* its deleted_at
deleteUserWrite(db, id, now, fault) ==
  LET x == IF fault = "destroy" THEN Threw(db, StoreFailure) ELSE User_destroy(db, id, now)
  IN IF x.threw
       THEN Out(x.db, Res(FALSE, "delete user failed",
                          <<Wrap("soft delete user failed", x).error>>, <<>>), <<>>)
     ELSE Out(x.db, Res(TRUE, "user deleted", <<>>, <<>>), <<>>)

\* verifyEmail(id), up to the already-verified check.  done: it returned here
verifyEmailCheck(db, id, fault) ==
  LET f == repo_findById(db, id, fault = "findById")
      Done(result) == [done |-> TRUE, result |-> result]
  IN IF f.threw
       THEN Done(Res(FALSE, "verify email failed", <<f.error>>, <<>>))      \* 邮箱验证失败
     ELSE IF f.value = <<>>
       THEN Done(Res(FALSE, "user not found", <<"the given user does not exist">>, <<>>))
     ELSE IF f.value[1].email_verified                                      \* 邮箱已验证
       THEN Done(Res(FALSE, "email already verified", <<"email was verified before">>, <<>>))
     ELSE [done |-> FALSE, result |-> Res(TRUE, "", <<>>, <<>>)]

\* verifyEmail(id), the write: email_verified = true, email_verified_at = now
verifyEmailWrite(db, id, now, fault) ==
  LET data == [email_verified |-> TRUE, email_verified_at |-> now]
      w == repo_update(db, id, data, fault = "update", fault = "refind")
      Caught(error) == Res(FALSE, "verify email failed", <<error>>, <<>>)
  IN IF w.threw THEN Out(w.db, Caught(w.error), <<data>>)
     ELSE IF w.value = <<>> THEN Out(w.db, Caught(NullDeref), <<data>>)
     ELSE Out(w.db, Res(TRUE, "email verified", <<>>, <<getPublicInfo(w.value[1])>>),  \* 邮箱验证成功
              <<data>>)

\* verifyEmail(id) run without another request in between
verifyEmail(db, id, now, fault) ==
  LET c == verifyEmailCheck(db, id, fault)
  IN IF c.done THEN Out(db, c.result, <<>>) ELSE verifyEmailWrite(db, id, now, fault)

DefaultPage == 1
DefaultLimit == 10
MaxLimit == 100

\* validatePaginationParams: the list of error messages
validatePaginationParams(options) ==
     (IF "page" \in DOMAIN options /\ options.page < 1
        THEN <<"page must be an integer above 0">> ELSE <<>>)
  \o (IF "limit" \in DOMAIN options /\ (options.limit < 1 \/ options.limit > MaxLimit)
        THEN <<"limit must be an integer in 1-100">> ELSE <<>>)

\* The ids of S from the newest row to the oldest (created_at DESC)
RECURSIVE NewestFirst(_)
NewestFirst(S) == IF S = {} THEN <<>> ELSE <<Max(S)>> \o NewestFirst(S \ {Max(S)})

\* (mutant) a findAll whose offset is page * limit
repo_findAllSkipsPage(db, options, matching, fails) ==
  LET page == IF "page" \in DOMAIN options THEN options.page ELSE DefaultPage
      limit == IF "limit" \in DOMAIN options THEN options.limit ELSE DefaultLimit
      offset == page * limit
      hits == NewestFirst(Visible(db) \cap matching)
      count == Len(hits)
      skip == IF offset < 0 THEN 0 ELSE offset
      ids == IF skip >= count THEN <<>>
             ELSE SubSeq(hits, skip + 1, IF skip + limit < count THEN skip + limit ELSE count)
  IN IF fails THEN Threw(db, "list users failed: " \o StoreFailure)
     ELSE Returned(db, <<[users |-> [k \in DOMAIN ids |-> db.rows[ids[k]]],
                          pagination |-> [total |-> count, page |-> page, limit |-> limit,
                                          totalPages |-> (count + limit - 1) \div limit]]>>)

\* UserRepository.findAll: one page of the visible rows among `matching`,
\* with the pagination block
repo_findAll(db, options, matching, fails) ==
  LET page == IF "page" \in DOMAIN options THEN options.page ELSE DefaultPage
      limit == IF "limit" \in DOMAIN options THEN options.limit ELSE DefaultLimit
      offset == (page - 1) * limit
      hits == NewestFirst(Visible(db) \cap matching)
      count == Len(hits)
      \* LIMIT offset, limit: SQLite reads a negative offset as 0
      skip == IF offset < 0 THEN 0 ELSE offset
      ids == IF skip >= count THEN <<>>
             ELSE SubSeq(hits, skip + 1, IF skip + limit < count THEN skip + limit ELSE count)
  IN IF fails THEN Threw(db, "list users failed: " \o StoreFailure)          \* 获取用户列表失败
     ELSE Returned(db, <<[users |-> [k \in DOMAIN ids |-> db.rows[ids[k]]],
                          pagination |-> [total |-> count, page |-> page, limit |-> limit,
                                          totalPages |-> (count + limit - 1) \div limit]]>>)

\* getUserList(options)
getUserList(db, options, fault) ==
  LET errs == validatePaginationParams(options)
      All(r) == TRUE
      f == repo_findAll(db, options, Where(db, All), fault = "findAll")
      found == f.value[1]
  IN IF errs # <<>>                                                       \* 分页参数验证失败
       THEN Out(db, Res(FALSE, "pagination validation failed", errs, <<>>), <<>>)
     ELSE IF f.threw
       THEN Out(db, Res(FALSE, "list users failed", <<f.error>>, <<>>), <<>>)
     ELSE Out(db, Res(TRUE, "listed users", <<>>,                         \* 获取用户列表成功
                      <<[users |-> [k \in DOMAIN found.users |-> getPublicInfo(found.users[k])],
                         pagination |-> found.pagination]>>), <<>>)

\* column LIKE '%keyword%' (SQLite: case-insensitive on ASCII letters)
Like(column, keyword) ==
  \E i \in 1..(Len(column) - Len(keyword) + 1) :
    ToLowerCase(SubSeq(column, i, i + Len(keyword) - 1)) = ToLowerCase(keyword)

\* searchUsers(keyword, options)
searchUsers(db, keyword, options, fault) ==
  LET Matches(r) == Like(r.username, keyword) \/ Like(r.full_name, keyword) \/ Like(r.email, keyword)
      f == repo_findAll(db, Pick(options, {"page", "limit"}), Where(db, Matches), fault = "findAll")
      found == f.value[1]
  IN IF f.threw
       THEN Out(db, Res(FALSE, "search users failed", <<f.error>>, <<>>), <<>>)   \* 搜索用户失败
     ELSE Out(db, Res(TRUE, "searched users", <<>>,                               \* 搜索用户成功
                      <<[users |-> [k \in DOMAIN found.users |-> getPublicInfo(found.users[k])],
                         pagination |-> found.pagination, keyword |-> keyword]>>), <<>>)

\* (mutant) statistics that count soft-deleted rows too
repo_getStatisticsOfAllRows(db, fails) ==
  LET total == Cardinality(DOMAIN db.rows)
      active == Cardinality({i \in DOMAIN db.rows : db.rows[i].status = "active"})
      verified == Cardinality({i \in DOMAIN db.rows : db.rows[i].email_verified})
  IN IF fails THEN Threw(db, "get statistics failed: " \o StoreFailure)
     ELSE Returned(db, <<[total |-> total, active |-> active, verified |-> verified,
                          verificationRate |->
                            IF total > 0
                              THEN [type |-> "string", hundredths |-> (verified * 20000 + total) \div (2 * total)]
                              ELSE [type |-> "number", hundredths |-> 0]]>>)

\* UserRepository.getStatistics: counts over the visible rows; the rate is a
\* string of two decimals (kept in hundredths of a percent) or the number 0
repo_getStatistics(db, fails) ==
  LET total == Cardinality(Visible(db))
      active == Cardinality({i \in Visible(db) : db.rows[i].status = "active"})
      verified == Cardinality({i \in Visible(db) : db.rows[i].email_verified})
  IN IF fails THEN Threw(db, "get statistics failed: " \o StoreFailure)       \* 获取用户统计信息失败
     ELSE Returned(db, <<[total |-> total, active |-> active, verified |-> verified,
                          verificationRate |->
                            IF total > 0
                              THEN [type |-> "string", hundredths |-> (verified * 20000 + total) \div (2 * total)]
                              ELSE [type |-> "number", hundredths |-> 0]]>>)

\* getUserStatistics()
getUserStatistics(db, fault) ==
  LET f == repo_getStatistics(db, fault = "count")
  IN IF f.threw
       THEN Out(db, Res(FALSE, "get statistics failed", <<f.error>>, <<>>), <<>>)
     ELSE Out(db, Res(TRUE, "got statistics", <<>>, f.value), <<>>)         \* 获取统计信息成功

-----------------------------------------------------------------------------
(* UserController (user.controller.js): the HTTP status of each handler. *)
(* o is what the service call left; o.threw reaches the handler's catch.  *)

ctl_createUser(o) == IF o.threw THEN 500 ELSE IF o.result.success THEN 201 ELSE 400
ctl_getUserList(o) == IF o.threw THEN 500 ELSE IF o.result.success THEN 200 ELSE 400
ctl_getUserById(o) == IF o.threw THEN 500 ELSE IF o.result.success THEN 200 ELSE 404
ctl_getUserByUsername(o) == IF o.threw THEN 500 ELSE IF o.result.success THEN 200 ELSE 404
ctl_updateUser(o) == IF o.threw THEN 500 ELSE IF o.result.success THEN 200 ELSE 400
\* (mutant) a delete handler that answers a failure with 404
ctl_deleteUserNotFound(o) == IF o.threw THEN 500 ELSE IF o.result.success THEN 200 ELSE 404
ctl_deleteUser(o) == IF o.threw THEN 500 ELSE IF o.result.success THEN 200 ELSE 400
ctl_authenticateUser(o) == IF o.threw THEN 500 ELSE IF o.result.success THEN 200 ELSE 401
ctl_verifyEmail(o) == IF o.threw THEN 500 ELSE IF o.result.success THEN 200 ELSE 400
ctl_searchUsers(o) == IF o.threw THEN 500 ELSE IF o.result.success THEN 200 ELSE 400
ctl_getUserStatistics(o) == IF o.threw THEN 500 ELSE IF o.result.success THEN 200 ELSE 400

\* The handlers whose failure body carries `errors: result.errors`
HandlersWithErrors == {"createUser", "getUserList", "updateUser", "authenticateUser"}

\* process.env.NODE_ENV
Modes == {"development", "production", "test"}

\* ctx.body of a handler for what the service call left.  No handler reads
\* NODE_ENV: the body is the same in every mode.  The data is left out.
ctl_body(op, o, mode) ==
  IF o.threw
    THEN [success |-> FALSE, message |-> "internal server error",      \* 服务器内部错误
          errors |-> o.result.errors]
  ELSE IF o.result.success
    THEN [success |-> TRUE, message |-> o.result.message, errors |-> <<>>]
  ELSE [success |-> FALSE, message |-> o.result.message,
        errors |-> IF op \in HandlersWithErrors THEN o.result.errors ELSE <<>>]

-----------------------------------------------------------------------------
(* The state machine *)

Db == [rows |-> rows, nextId |-> nextId]

\* The row with key id as the table holds it (<<>>: there is none)
RowAt(id) == IF id \in DOMAIN rows THEN <<rows[id]>> ELSE <<>>

\* The record of a served request; before is the row the request addressed as
\* the table held it when the request arrived
Served(op, args, before, o, status) ==
  [op |-> op, args |-> args, before |-> before, result |-> o.result,
   handed |-> o.handed, threw |-> o.threw, status |-> status]

\* The table stays within the bounds of the model
WithinBounds(db) ==
  /\ db.nextId <= MaxId + 1
  /\ \A i \in DOMAIN db.rows : db.rows[i].login_count \in 0..MaxLogin

\* The request is answered and the table is as the service left it
Answer(op, args, before, o, status) ==
  /\ WithinBounds(o.db)
  /\ rows' = o.db.rows
  /\ nextId' = o.db.nextId
  /\ last' = Served(op, args, before, o, status)
  /\ UNCHANGED <<ctx, users, demoNextId, steps>>

\* initializeDatabase has not been called
NotStarted ==
  [env |-> <<>>, pc |-> "idle", calls |-> <<>>, returned |-> <<>>, threw |-> FALSE]

\* No request has passed through the middleware chain yet
NoRequest == [status |-> 404, body |-> <<>>]

\* let users = [{ id: 1, name: 'Alice', ... }, { id: 2, name: 'Bob', ... }]
AliceMail ==
  <<"a","l","i","c","e","@","e","x","a","m","p","l","e",".","c","o","m">>
BobExampleMail ==
  <<"b","o","b","@","e","x","a","m","p","l","e",".","c","o","m">>
InitialUsers ==
  <<[id |-> 1, name |-> <<"A","l","i","c","e">>, email |-> AliceMail],
    [id |-> 2, name |-> <<"B","o","b">>, email |-> BobExampleMail]>>

Init ==
  /\ rows = <<>>
  /\ nextId = 1
  /\ last = [op |-> "none", args |-> <<>>, before |-> <<>>,
             result |-> Res(TRUE, "", <<>>, <<>>),
             handed |-> <<>>, threw |-> FALSE, status |-> 0]
  /\ pending = {}
  /\ ctx = NoRequest
  /\ users = InitialUsers
  /\ demoNextId = 3
  /\ steps = NotStarted

\* POST /api/users
CreateUser(userData, salt, fault) ==
  LET o == createUser(Db, userData, salt, fault)
  IN /\ Answer("createUser", [userData |-> userData], <<>>, o, ctl_createUser(o))
     /\ UNCHANGED pending

\* GET /api/users/:id
GetUserById(id, includePrivate, fault) ==
  LET o == getUserById(Db, id, includePrivate, fault)
  IN /\ Answer("getUserById", [id |-> id, includePrivate |-> includePrivate], RowAt(id), o,
               ctl_getUserById(o))
     /\ UNCHANGED pending

\* GET /api/users/username/:username
GetUserByUsername(username, fault) ==
  LET o == getUserByUsername(Db, username, fault)
  IN /\ Answer("getUserByUsername", [username |-> username],
               repo_findByUsername(Db, username, FALSE).value, o, ctl_getUserByUsername(o))
     /\ UNCHANGED pending

\* GET /api/users
GetUserList(options, fault) ==
  LET o == getUserList(Db, options, fault)
  IN /\ Answer("getUserList", [options |-> options], <<>>, o, ctl_getUserList(o))
     /\ UNCHANGED pending

\* PUT /api/users/:id
UpdateUser(id, updateData, salt, fault) ==
  LET o == updateUser(Db, id, updateData, salt, fault)
  IN /\ Answer("updateUser", [id |-> id, updateData |-> updateData], RowAt(id), o, ctl_updateUser(o))
     /\ UNCHANGED pending

\* DELETE /api/users/:id
DeleteUser(id, fault) ==
  \E now \in Clock(Db) :
    LET o == deleteUser(Db, id, now, fault)
    IN /\ Answer("deleteUser", [id |-> id], RowAt(id), o, ctl_deleteUser(o))
       /\ UNCHANGED pending

\* POST /api/users/auth/login
AuthenticateUser(identifier, password, loginIp, fault) ==
  \E now \in Clock(Db) :
    LET o == authenticateUser(Db, identifier, password, loginIp, now, fault)
    IN /\ Answer("authenticateUser",
                 [identifier |-> identifier, password |-> password, loginIp |-> loginIp],
                 repo_findByUsernameOrEmail(Db, identifier, FALSE).value, o, ctl_authenticateUser(o))
       /\ UNCHANGED pending

\* POST /api/users/:id/verify-email
VerifyEmail(id, fault) ==
  \E now \in Clock(Db) :
    LET o == verifyEmail(Db, id, now, fault)
    IN /\ Answer("verifyEmail", [id |-> id], RowAt(id), o, ctl_verifyEmail(o))
       /\ UNCHANGED pending

\* GET /api/users/search
SearchUsers(keyword, options, fault) ==
  LET o == searchUsers(Db, keyword, options, fault)
  IN /\ Answer("searchUsers", [keyword |-> keyword, options |-> options], <<>>, o,
               ctl_searchUsers(o))
     /\ UNCHANGED pending

\* GET /api/users/statistics
GetUserStatistics(fault) ==
  LET o == getUserStatistics(Db, fault)
  IN /\ Answer("getUserStatistics", <<>>, <<>>, o, ctl_getUserStatistics(o))
     /\ UNCHANGED pending

\* A request that passed its checks and waits at `await userRepository.update`
Waiting(op, id, updateData) ==
  [op |-> op, id |-> id, updateData |-> updateData, before |-> RowAt(id)]

\* PUT /api/users/:id up to the await of userRepository.update: the method
\* returns from its checks, or the request waits for its write
BeginUpdateUser(id, updateData, fault) ==
  LET c == updateUserCheck(Db, id, updateData, fault)
      o == Out(Db, c.result, <<>>)
  IN IF c.done
       THEN /\ Answer("updateUser", [id |-> id, updateData |-> updateData], RowAt(id), o,
                       ctl_updateUser(o))
            /\ UNCHANGED pending
       ELSE /\ Cardinality(pending) < MaxPending
            /\ pending' = pending \cup {Waiting("updateUser", id, updateData)}
            /\ UNCHANGED <<rows, nextId, last, ctx, users, demoNextId, steps>>

\* PUT /api/users/:id from userRepository.update on, against the table as the
\* requests served in between left it
FinishUpdateUser(req, salt, fault) ==
  LET o == updateUserWrite(Db, req.id, req.updateData, salt, fault)
  IN /\ req.op = "updateUser"
     /\ Answer("updateUser", [id |-> req.id, updateData |-> req.updateData], req.before, o,
                ctl_updateUser(o))
     /\ pending' = pending \ {req}

\* POST /api/users/:id/verify-email up to the await of userRepository.update
BeginVerifyEmail(id, fault) ==
  LET c == verifyEmailCheck(Db, id, fault)
      o == Out(Db, c.result, <<>>)
  IN IF c.done
       THEN /\ Answer("verifyEmail", [id |-> id], RowAt(id), o, ctl_verifyEmail(o))
            /\ UNCHANGED pending
       ELSE /\ Cardinality(pending) < MaxPending
            /\ pending' = pending \cup {Waiting("verifyEmail", id, <<>>)}
            /\ UNCHANGED <<rows, nextId, last, ctx, users, demoNextId, steps>>

\* POST /api/users/:id/verify-email from userRepository.update on
FinishVerifyEmail(req, fault) ==
  \E now \in Clock(Db) :
    LET o == verifyEmailWrite(Db, req.id, now, fault)
    IN /\ req.op = "verifyEmail"
       /\ Answer("verifyEmail", [id |-> req.id], req.before, o, ctl_verifyEmail(o))
       /\ pending' = pending \ {req}

\* A createUser request that waits at the await named by `at`
WaitingCreate(userData, at) == [op |-> "createUser", userData |-> userData, at |-> at]

\* POST /api/users up to the await of userRepository.isEmailExists
BeginCreateUser(userData, fault) ==
  LET c == createUserCheckUsername(Db, userData, fault)
      o == Out(Db, c.result, <<>>)
  IN IF c.done
       THEN /\ Answer("createUser", [userData |-> userData], <<>>, o, ctl_createUser(o))
            /\ UNCHANGED pending
       ELSE /\ Cardinality(pending) < MaxPending
            /\ pending' = pending \cup {WaitingCreate(userData, "isEmailExists")}
            /\ UNCHANGED <<rows, nextId, last, ctx, users, demoNextId, steps>>

\* POST /api/users from the email check up to the await of bcrypt.hash
ContinueCreateUser(req, fault) ==
  LET c == createUserCheckEmail(Db, req.userData, fault)
      o == Out(Db, c.result, <<>>)
  IN /\ req.op = "createUser"
     /\ req.at = "isEmailExists"
     /\ IF c.done
          THEN /\ Answer("createUser", [userData |-> req.userData], <<>>, o, ctl_createUser(o))
               /\ pending' = pending \ {req}
          ELSE /\ pending' = (pending \ {req}) \cup {WaitingCreate(req.userData, "create")}
               /\ UNCHANGED <<rows, nextId, last, ctx, users, demoNextId, steps>>

\* POST /api/users from bcrypt.hash on, against the table as the requests
\* served in between left it
FinishCreateUser(req, salt, fault) ==
  LET o == createUserWrite(Db, req.userData, salt, fault)
  IN /\ req.op = "createUser"
     /\ req.at = "create"
     /\ Answer("createUser", [userData |-> req.userData], <<>>, o, ctl_createUser(o))
     /\ pending' = pending \ {req}

\* A login that passed its checks and waits at `await user.updateLastLogin`
\* with the instance it loaded
WaitingLogin(identifier, password, loginIp, user) ==
  [op |-> "authenticateUser", user |-> user,
   args |-> [identifier |-> identifier, password |-> password, loginIp |-> loginIp]]

\* POST /api/users/auth/login up to the await of user.updateLastLogin
BeginAuthenticateUser(identifier, password, loginIp, fault) ==
  LET c == authenticateUserCheck(Db, identifier, password, fault)
      o == Out(Db, c.result, <<>>)
  IN IF c.done
       THEN /\ Answer("authenticateUser",
                       [identifier |-> identifier, password |-> password, loginIp |-> loginIp],
                       repo_findByUsernameOrEmail(Db, identifier, FALSE).value, o,
                       ctl_authenticateUser(o))
            /\ UNCHANGED pending
       ELSE /\ Cardinality(pending) < MaxPending
            /\ pending' = pending \cup {WaitingLogin(identifier, password, loginIp, c.user[1])}
            /\ UNCHANGED <<rows, nextId, last, ctx, users, demoNextId, steps>>

\* POST /api/users/auth/login from user.updateLastLogin on
FinishAuthenticateUser(req, fault) ==
  /\ req.op = "authenticateUser"
  /\ \E now \in Clock(Db) :
       LET o == authenticateUserSave(Db, req.user, req.args.loginIp, now, fault)
       IN /\ Answer("authenticateUser", req.args, <<req.user>>, o, ctl_authenticateUser(o))
          /\ pending' = pending \ {req}

\* DELETE /api/users/:id up to the await of user.destroy
BeginDeleteUser(id, fault) ==
  LET c == deleteUserCheck(Db, id, fault)
      o == Out(Db, c.result, <<>>)
  IN IF c.done
       THEN /\ Answer("deleteUser", [id |-> id], RowAt(id), o, ctl_deleteUser(o))
            /\ UNCHANGED pending
       ELSE /\ Cardinality(pending) < MaxPending
            /\ pending' = pending \cup {Waiting("deleteUser", id, <<>>)}
            /\ UNCHANGED <<rows, nextId, last, ctx, users, demoNextId, steps>>

\* DELETE /api/users/:id from user.destroy on
FinishDeleteUser(req, fault) ==
  /\ req.op = "deleteUser"
  /\ \E now \in Clock(Db) :
       LET o == deleteUserWrite(Db, req.id, now, fault)
       IN /\ Answer("deleteUser", [id |-> req.id], req.before, o, ctl_deleteUser(o))
          /\ pending' = pending \ {req}

\* What a repository method called on its own leaves: its value as the data
OfRepo(r) == Out(r.db, Res(~r.threw, r.error, <<>>, r.value), <<>>)

\* userRepository.findById(id)
FindById(id) ==
  /\ Answer("findById", [id |-> id], RowAt(id), OfRepo(repo_findById(Db, id, FALSE)), 0)
  /\ UNCHANGED pending

\* userRepository.softDelete(id)
SoftDelete(id) ==
  \E now \in Clock(Db) :
    /\ Answer("softDelete", [id |-> id], RowAt(id), OfRepo(repo_softDelete(Db, id, now, FALSE, FALSE)), 0)
    /\ UNCHANGED pending

\* userRepository.restore(id)
Restore(id) ==
  /\ Answer("restore", [id |-> id], RowAt(id), OfRepo(repo_restore(Db, id, FALSE)), 0)
  /\ UNCHANGED pending

\* userRepository.hardDelete(id)
HardDelete(id) ==
  /\ Answer("hardDelete", [id |-> id], RowAt(id), OfRepo(repo_hardDelete(Db, id, FALSE)), 0)
  /\ UNCHANGED pending

-----------------------------------------------------------------------------
(* The requests the specifications send *)

Ali == <<"a","l","i">>
Bob == <<"b","o","b">>
\* accepted by validateUsername, refused by the column's isAlphanumeric
UnderscoreName == <<"a","_","b">>
ShortName == <<"a","b">>

AliMail == <<"a","@","b",".","c","o">>
AliMailUpper == <<"A","@","B",".","c","o">>
BobMail == <<"d","@","b",".","c","o">>
MailWithoutDot == <<"a","@","b">>

Pass1 == <<"A","b","1","!","c","d">>
Pass2 == <<"X","y","2","?","z","w">>
WeakPass == <<"a","b","c">>

Salts == {"salt"}
Ids == 1..MaxId

\* bodies of POST /api/users
CreateBodies ==
  {[username |-> u, email |-> e, password |-> Pass1] :
      u \in {Ali, Bob}, e \in {AliMail, AliMailUpper, BobMail}}
    \cup {[username |-> Bob, email |-> BobMail, password |-> Pass1, status |-> "inactive"],
          [username |-> Ali, email |-> MailWithoutDot, password |-> Pass1],
          [username |-> ShortName, email |-> AliMail, password |-> Pass1],
          [username |-> Ali, email |-> AliMail, password |-> WeakPass],
          [username |-> UnderscoreName, email |-> BobMail, password |-> Pass1]}

\* bodies of PUT /api/users/:id
UpdateBodies ==
  {[username |-> Ali], [username |-> Bob], [username |-> ShortName],
   [email |-> AliMailUpper], [email |-> BobMail], [email |-> MailWithoutDot],
   [status |-> "inactive"]}

\* One request at a time, against a store that answers every call: the life
\* of the rows (create, read, update, soft delete, restore, hard delete)
Next ==
  \/ \E d \in CreateBodies, salt \in Salts : CreateUser(d, salt, NoFault)
  \/ \E id \in Ids : GetUserById(id, FALSE, NoFault)
  \/ \E u \in {Ali, Bob} : GetUserByUsername(u, NoFault)
  \/ \E id \in Ids, d \in UpdateBodies, salt \in Salts : UpdateUser(id, d, salt, NoFault)
  \/ \E id \in Ids : DeleteUser(id, NoFault)
  \/ \E id \in Ids : FindById(id)
  \/ \E id \in Ids : SoftDelete(id)
  \/ \E id \in Ids : Restore(id)
  \/ \E id \in Ids : HardDelete(id)

Spec == Init /\ [][Next]_vars

\* a string sent as password_hash, which bcrypt did not produce
RawHash == <<"r","a","w","r","a","w">>
Carl == <<"c","a","r","l">>
Ips == {NoIp, "10.0.0.1"}

\* bodies of POST /api/users of the login specification
LoginCreateBodies ==
  {[username |-> Ali, email |-> AliMail, password |-> Pass1],
   [username |-> Bob, email |-> BobMail, password |-> Pass1, status |-> "inactive"],
   [username |-> Bob, email |-> BobMail, password |-> WeakPass]}

\* bodies of PUT /api/users/:id of the login specification; every one but the
\* weak password passes validateUserUpdate
LoginUpdateBodies ==
  {[password |-> Pass2], [password |-> WeakPass], [password_hash |-> RawHash],
   [login_count |-> 0], [last_login_ip |-> "10.0.0.2"]}

Identifiers == {Ali, AliMailUpper, Bob, Carl}
Passwords == {Pass1, Pass2}
\* the rows the login specification updates, verifies, deletes and restores
LoginIds == {1}

\* One request at a time: passwords, logins and the operations around them
NextLogin ==
  \/ \E d \in LoginCreateBodies, salt \in Salts : CreateUser(d, salt, NoFault)
  \/ \E id \in LoginIds, d \in LoginUpdateBodies, salt \in Salts : UpdateUser(id, d, salt, NoFault)
  \/ \E i \in Identifiers, p \in Passwords, ip \in Ips : AuthenticateUser(i, p, ip, NoFault)
  \/ \E id \in LoginIds : VerifyEmail(id, NoFault)
  \/ \E id \in LoginIds : DeleteUser(id, NoFault)
  \/ \E id \in LoginIds : Restore(id)

SpecLogin == Init /\ [][NextLogin]_vars

\* bodies of POST /api/users of the API specification
ApiCreateBodies ==
  {[username |-> Ali, email |-> AliMail, password |-> Pass1],
   [username |-> Bob, email |-> BobMail, password |-> Pass1],
   [username |-> Bob, email |-> BobMail, password |-> WeakPass]}

\* bodies of PUT /api/users/:id of the API specification
ApiUpdateBodies == {[username |-> Bob], [username |-> ShortName]}

\* query strings of the list and search handlers
ApiOptions == {<<>>, [page |-> 1, limit |-> 1], [page |-> 0, limit |-> 1]}

\* The data-store call that fails during a request, for each method
CreateFaults == {NoFault, "isUsernameExists", "isEmailExists", "create"}
UpdateCheckFaults == {NoFault, "findById", "isUsernameExists"}
WriteFaults == {NoFault, "update", "refind"}
DeleteFaults == {NoFault, "findById", "destroy"}
LoginFaults == {NoFault, "findByUsernameOrEmail", "save"}

\* Every method of the service behind its handler, with requests in flight
\* between the checks and the write of updateUser and verifyEmail, and a
\* store whose calls may fail
NextApi ==
  \/ \E d \in ApiCreateBodies, salt \in Salts, f \in CreateFaults : CreateUser(d, salt, f)
  \/ \E id \in Ids, p \in BOOLEAN, f \in {NoFault, "findById"} : GetUserById(id, p, f)
  \/ \E u \in {Ali, Bob}, f \in {NoFault, "findByUsername"} : GetUserByUsername(u, f)
  \/ \E o \in ApiOptions, f \in {NoFault, "findAll"} : GetUserList(o, f)
  \/ \E id \in Ids, d \in ApiUpdateBodies, f \in UpdateCheckFaults : BeginUpdateUser(id, d, f)
  \/ \E req \in pending, salt \in Salts, f \in WriteFaults : FinishUpdateUser(req, salt, f)
  \/ \E id \in Ids, f \in DeleteFaults : DeleteUser(id, f)
  \/ \E i \in {Ali, Carl}, p \in Passwords, f \in LoginFaults : AuthenticateUser(i, p, NoIp, f)
  \/ \E id \in Ids, f \in {NoFault, "findById"} : BeginVerifyEmail(id, f)
  \/ \E req \in pending, f \in WriteFaults : FinishVerifyEmail(req, f)
  \/ \E k \in {Ali, <<"b">>}, o \in ApiOptions, f \in {NoFault, "findAll"} : SearchUsers(k, o, f)
  \/ \E f \in {NoFault, "count"} : GetUserStatistics(f)

SpecApi == Init /\ [][NextApi]_vars

\* The users a test seeds through userRepository.create: user n is usr<n>
\* with email <n>@b.co; their status and email_verified go round three kinds
DigitOf == <<"1", "2", "3", "4", "5", "6", "7", "8", "9">>
SeedKinds ==
  <<[status |-> "active", email_verified |-> FALSE],
    [status |-> "inactive", email_verified |-> TRUE],
    [status |-> "active", email_verified |-> TRUE]>>
SeedBody(n) ==
  Spread([username |-> <<"u", "s", "r", DigitOf[n]>>,
          email |-> <<DigitOf[n], "@", "b", ".", "c", "o">>,
          password_hash |-> bcrypt_hash(Pass1, "salt")],
         SeedKinds[(n % 3) + 1])

Pages == 1..MaxPage
Limits == {1, 3, MaxLimit}

\* A repository method was called on its own and the table is as it left it
Leave(op, args, before, r) ==
  /\ rows' = r.db.rows
  /\ nextId' = r.db.nextId
  /\ last' = Served(op, args, before, OfRepo(r), 0)
  /\ UNCHANGED <<pending, ctx, users, demoNextId, steps>>

\* userRepository.create(createTestUserData(...)) of the next seeded user
SeedUser ==
  /\ nextId <= MaxSeeded
  /\ Leave("create", [userData |-> SeedBody(nextId)], <<>>, repo_create(Db, SeedBody(nextId), FALSE))

\* userRepository.softDelete(id) on the seeded table
SeededSoftDelete(id) ==
  \E now \in Clock(Db) :
    Leave("softDelete", [id |-> id], RowAt(id), repo_softDelete(Db, id, now, FALSE, FALSE))

\* userRepository.findAll({ page, limit })
FindAll(page, limit) ==
  Leave("findAll", [page |-> page, limit |-> limit], <<>>,
        repo_findAll(Db, [page |-> page, limit |-> limit], DOMAIN rows, FALSE))

\* userRepository.findAll({ page: 1, limit: 10, sortBy, sortOrder }): sortBy
\* and sortOrder are not among the keys findAll takes out of its options;
\* they reach User.findAndCountAll with the other options, which has no such
\* options, and the order stays [['created_at', 'DESC']]
FindAllSorted(sortBy, sortOrder) ==
  LET options == [page |-> DefaultPage, limit |-> DefaultLimit,
                  sortBy |-> sortBy, sortOrder |-> sortOrder]
  IN Leave("findAll", options, <<>>, repo_findAll(Db, options, DOMAIN rows, FALSE))

\* userRepository.getStatistics()
GetStatistics ==
  Leave("getStatistics", <<>>, <<>>, repo_getStatistics(Db, FALSE))

\* Queries over a seeded table, some of whose rows get soft-deleted
NextStore ==
  \/ SeedUser
  \/ \E id \in 1..MaxSeeded : SeededSoftDelete(id)
  \/ \E page \in Pages, limit \in Limits : FindAll(page, limit)
  \/ \E sortOrder \in {"ASC", "DESC"} : FindAllSorted("username", sortOrder)
  \/ GetStatistics

SpecStore == Init /\ [][NextStore]_vars

\* Email verification requests that overlap: one request waits between its
\* two awaits (findById, update) while others are served; a request served in
\* one step ran its two awaits with no other request in between.
NextVerify ==
  \/ \E d \in ApiCreateBodies, salt \in Salts : CreateUser(d, salt, NoFault)
  \/ \E id \in Ids, f \in {NoFault, "findById"} : BeginVerifyEmail(id, f)
  \/ \E req \in pending, f \in WriteFaults : FinishVerifyEmail(req, f)
  \/ \E id \in Ids, f \in WriteFaults : VerifyEmail(id, f)
  \/ \E id \in Ids : DeleteUser(id, NoFault)

SpecVerify == Init /\ [][NextVerify]_vars

\* bcrypt.hash(password, 12) draws a new salt at every call
FreshSalts == {"salt", "pepper"}

\* bodies of PUT /api/users/:id of the specification of repeated calls
RepeatBodies ==
  {[password |-> Pass2], [username |-> Bob], [email |-> AliMailUpper],
   [status |-> "inactive"]}

\* One request at a time, every method but the login, so that a call may be
\* followed by the same call with the same arguments
NextRepeat ==
  \/ \E d \in LoginCreateBodies, salt \in Salts : CreateUser(d, salt, NoFault)
  \/ \E id \in Ids : GetUserById(id, FALSE, NoFault)
  \/ \E u \in {Ali, Bob} : GetUserByUsername(u, NoFault)
  \/ GetUserList(<<>>, NoFault)
  \/ \E id \in Ids, d \in RepeatBodies, salt \in FreshSalts : UpdateUser(id, d, salt, NoFault)
  \/ \E id \in Ids : DeleteUser(id, NoFault)
  \/ \E id \in Ids : VerifyEmail(id, NoFault)
  \/ SearchUsers(<<"b">>, <<>>, NoFault)
  \/ GetUserStatistics(NoFault)

SpecRepeat == Init /\ [][NextRepeat]_vars

\* bodies of POST /api/users of the specification of overlapping creations:
\* the same username, the same email in another case, or neither
RaceBodies ==
  {[username |-> u, email |-> e, password |-> Pass1] :
      u \in {Ali, Bob}, e \in {AliMail, AliMailUpper, BobMail}}

\* createUser requests that overlap: one waits at one of its awaits while
\* another is served from its first check to its insert
NextRace ==
  \/ \E d \in RaceBodies, salt \in Salts : CreateUser(d, salt, NoFault)
  \/ \E d \in RaceBodies : BeginCreateUser(d, NoFault)
  \/ \E req \in pending : ContinueCreateUser(req, NoFault)
  \/ \E req \in pending, salt \in Salts : FinishCreateUser(req, salt, NoFault)
  \/ \E id \in Ids : DeleteUser(id, NoFault)

SpecRace == Init /\ [][NextRace]_vars

\* bodies of POST /api/users of the specification of overlapping requests
SessionBodies ==
  {[username |-> Ali, email |-> AliMail, password |-> Pass1],
   [username |-> Bob, email |-> BobMail, password |-> Pass1]}

\* Requests on one user that overlap: a login, an update, a verification or
\* a deletion waits between its checks and its write while other requests
\* are served
NextSession ==
  \/ \E d \in SessionBodies, salt \in Salts : CreateUser(d, salt, NoFault)
  \/ \E id \in Ids : GetUserById(id, FALSE, NoFault)
  \/ GetUserByUsername(Ali, NoFault)
  \/ GetUserList(<<>>, NoFault)
  \/ SearchUsers(Ali, <<>>, NoFault)
  \/ \E id \in LoginIds : BeginUpdateUser(id, [username |-> Carl], NoFault)
  \/ \E req \in pending, salt \in Salts : FinishUpdateUser(req, salt, NoFault)
  \/ \E id \in LoginIds : BeginVerifyEmail(id, NoFault)
  \/ \E req \in pending : FinishVerifyEmail(req, NoFault)
  \/ \E id \in LoginIds : BeginDeleteUser(id, NoFault)
  \/ \E req \in pending : FinishDeleteUser(req, NoFault)
  \/ \E id \in LoginIds : DeleteUser(id, NoFault)
  \/ \E i \in {Ali, AliMailUpper}, p \in Passwords : AuthenticateUser(i, p, NoIp, NoFault)
  \/ \E i \in {Ali, AliMailUpper}, p \in Passwords : BeginAuthenticateUser(i, p, NoIp, NoFault)
  \/ \E req \in pending : FinishAuthenticateUser(req, NoFault)

SpecSession == Init /\ [][NextSession]_vars

-----------------------------------------------------------------------------
(* Error middleware *)

\* a || b for a numeric property: undefined (<<>>, the property is absent)
\* and 0 are falsy
OrElseNumber(a, b) == IF a \in {<<>>, <<0>>} THEN b ELSE a

\* a || b for a string property: undefined and the empty string are falsy
OrElseString(a, b) == IF a \in {<<>>, <<"">>} THEN b ELSE a

\* Reading a property of null or undefined throws a TypeError
ReadThrows(value) == value.type \in {"null", "undefined"}

\* errorHandler(ctx, next): c is the context as the downstream middleware
\* left it, outcome tells whether `await next()` threw, and what.  The result
\* is the context, with the two arguments, what the handler raised itself and
\* what it handed to ctx.app.emit('error', ...)
errorHandler(c, outcome) ==
  IF ~outcome.threw
    THEN [status |-> c.status, body |-> c.body, given |-> c, downstream |-> outcome,
          raised |-> <<>>, emitted |-> <<>>]
  ELSE IF ReadThrows(outcome.value)                  \* err.status of null / undefined
    THEN [status |-> c.status, body |-> c.body, given |-> c, downstream |-> outcome,
          raised |-> <<"TypeError">>, emitted |-> <<>>]
  ELSE [status |-> OrElseNumber(OrElseNumber(outcome.value.status, outcome.value.statusCode), <<500>>)[1],
        body |-> [success |-> FALSE,
                  message |-> OrElseString(outcome.value.message, <<"Internal Server Error">>)[1]],
        given |-> c, downstream |-> outcome, raised |-> <<>>, emitted |-> <<outcome.value>>]

\* The values the downstream middleware throws: Error objects with and
\* without status, statusCode and message (new Error() has message ''),
\* a string, null and undefined
ThrownValues ==
  {[type |-> "Error", status |-> st, statusCode |-> sc, message |-> m] :
      st \in {<<>>, <<0>>, <<400>>, <<404>>}, sc \in {<<>>, <<422>>},
      m \in {<<"">>, <<"Test error">>, <<"Internal Server Error">>}}
    \cup {[type |-> t, status |-> <<>>, statusCode |-> <<>>, message |-> <<>>] :
            t \in {"string", "null", "undefined"}}

\* What `await next()` did: returned, or threw one of the values
Outcomes ==
  {[threw |-> FALSE, value |-> <<>>]} \cup {[threw |-> TRUE, value |-> v] : v \in ThrownValues}

\* The context as the downstream code left it
DownstreamContexts ==
  {[status |-> st, body |-> b] :
      st \in {200, 201}, b \in {<<>>, [success |-> TRUE, data |-> "test"]}}

\* One request through errorHandler
ErrorHandler(c, outcome) ==
  /\ ctx' = errorHandler(c, outcome)
  /\ UNCHANGED <<rows, nextId, last, pending, users, demoNextId, steps>>

NextError == \E c \in DownstreamContexts, outcome \in Outcomes : ErrorHandler(c, outcome)

SpecError == Init /\ [][NextError]_vars

-----------------------------------------------------------------------------
(* Database initialisation *)

\* What the file system and the data store do during one initializeDatabase:
\* whether the database directory exists, whether mkdirSync, authenticate and
\* sync fail, and the options handed to sync
Environments ==
  [dirExists : BOOLEAN, mkdirFails : BOOLEAN, authenticateFails : BOOLEAN,
   syncFails : BOOLEAN, force : BOOLEAN, alter : BOOLEAN]

\* The run has made one more call
Called(fn, ok) == Append(steps.calls, [fn |-> fn, ok |-> ok])

\* The catch block of initializeDatabase: log, return false
CaughtAt(fn) ==
  [steps EXCEPT !.pc = "done", !.calls = Called(fn, FALSE), !.returned = <<FALSE>>]

\* initializeDatabase(options) is called
InitializeDatabase(env) ==
  /\ steps.pc \in {"idle", "done"}
  /\ steps' = [env |-> env, pc |-> "ensureDatabaseDirectory", calls |-> <<>>,
               returned |-> <<>>, threw |-> FALSE]
  /\ UNCHANGED <<rows, nextId, last, pending, ctx, users, demoNextId>>

\* 1. ensureDatabaseDirectory(): mkdirSync when the directory is missing; an
\* exception of mkdirSync lands in the catch block
EnsureDatabaseDirectory ==
  /\ steps.pc = "ensureDatabaseDirectory"
  /\ steps' = IF ~steps.env.dirExists /\ steps.env.mkdirFails
                THEN CaughtAt("ensureDatabaseDirectory")
                ELSE [steps EXCEPT !.pc = "testDatabaseConnection",
                                   !.calls = Called("ensureDatabaseDirectory", TRUE)]
  /\ UNCHANGED <<rows, nextId, last, pending, ctx, users, demoNextId>>

\* (mutant) a connection test whose result is not looked at
TestDatabaseConnectionIgnored ==
  /\ steps.pc = "testDatabaseConnection"
  /\ steps' = [steps EXCEPT !.pc = "syncDatabase",
                            !.calls = Called("testDatabaseConnection",
                                             ~steps.env.authenticateFails)]
  /\ UNCHANGED <<rows, nextId, last, pending, ctx, users, demoNextId>>

\* 2. testDatabaseConnection(): false when sequelize.authenticate() rejects,
\* and then initializeDatabase throws into its own catch block
TestDatabaseConnection ==
  /\ steps.pc = "testDatabaseConnection"
  /\ steps' = IF steps.env.authenticateFails
                THEN CaughtAt("testDatabaseConnection")
                ELSE [steps EXCEPT !.pc = "syncDatabase",
                                   !.calls = Called("testDatabaseConnection", TRUE)]
  /\ UNCHANGED <<rows, nextId, last, pending, ctx, users, demoNextId>>

\* 3. syncDatabase(options): false when sequelize.sync({ force, alter })
\* rejects; otherwise initializeDatabase returns true
SyncDatabase ==
  /\ steps.pc = "syncDatabase"
  /\ steps' = IF steps.env.syncFails
                THEN CaughtAt("syncDatabase")
                ELSE [steps EXCEPT !.pc = "done", !.calls = Called("syncDatabase", TRUE),
                                   !.returned = <<TRUE>>]
  /\ UNCHANGED <<rows, nextId, last, pending, ctx, users, demoNextId>>

NextInitialize ==
  \/ \E env \in Environments : InitializeDatabase(env)
  \/ EnsureDatabaseDirectory
  \/ TestDatabaseConnection
  \/ SyncDatabase

SpecInitialize == Init /\ [][NextInitialize]_vars

-----------------------------------------------------------------------------
(* Demo user routes (routes/userRoutes.js): middleware chains in front of the
   controllers of controllers/userController.js, over the in-memory list *)

\* largest id the in-memory list hands out
MaxDemoId == 4

\* String.prototype.trim
RECURSIVE TrimStart(_)
TrimStart(str) ==
  IF str # <<>> /\ Head(str) \in Whitespace THEN TrimStart(Tail(str)) ELSE str
RECURSIVE TrimEnd(_)
TrimEnd(str) ==
  IF str # <<>> /\ str[Len(str)] \in Whitespace
    THEN TrimEnd(SubSeq(str, 1, Len(str) - 1)) ELSE str
Trim(str) == TrimEnd(TrimStart(str))

\* What a middleware or controller leaves: the context, the list and the id
\* counter, and whether it called next()
Stops(s, c) == [ctx |-> c, users |-> s.users, nextId |-> s.nextId, next |-> FALSE]
CallsNext(s, c) == [ctx |-> c, users |-> s.users, nextId |-> s.nextId, next |-> TRUE]

\* The function was entered (the trace the properties read)
Ran(c, name) == [c EXCEPT !.ran = Append(@, name)]

\* ctx.status = status; ctx.body = body
Reply(c, status, body) == [c EXCEPT !.status = status, !.body = body]

\* ctx.user set by the two authentication middlewares
JohnDoe == [id |-> 1, name |-> "John Doe", role |-> "admin"]
ValidToken == "Bearer valid-token"

\* (mutant) an authMiddleware that answers 401 and calls next() all the same
authMiddlewareGoesOn(s) ==
  LET c == Ran(s.ctx, "authMiddleware")
  IN IF c.authorization # <<ValidToken>>
       THEN CallsNext(s, Reply(c, 401, [error |-> "invalid token", status |-> "error"]))
       ELSE CallsNext(s, [c EXCEPT !.user = <<JohnDoe>>])

\* authMiddleware: 401 without a token or with another token than the valid
\* one, without calling next()
authMiddleware(s) ==
  LET c == Ran(s.ctx, "authMiddleware")
      token == c.authorization
  IN IF token \in {<<>>, <<"">>}                                     \* 缺少认证令牌
       THEN Stops(s, Reply(c, 401, [error |-> "missing token", status |-> "error"]))
     ELSE IF token # <<ValidToken>>                                  \* 无效的认证令牌
       THEN Stops(s, Reply(c, 401, [error |-> "invalid token", status |-> "error"]))
     ELSE CallsNext(s, [c EXCEPT !.user = <<JohnDoe>>])

\* optionalAuthMiddleware: sets ctx.user for the valid token, always calls next()
optionalAuthMiddleware(s) ==
  LET c == Ran(s.ctx, "optionalAuthMiddleware")
  IN CallsNext(s, IF c.authorization = <<ValidToken>> THEN [c EXCEPT !.user = <<JohnDoe>>] ELSE c)

\* !value of a string property: absent or empty
Missing(data, field) == field \notin DOMAIN data \/ data[field] = <<>>

\* validateUserData: for POST and PUT, name of at least 2 characters after
\* trim and email matching the regex, else 400; the body is normalised
validateUserData(s) ==
  LET c == Ran(s.ctx, "validateUserData")
      data == c.request
      nameError ==
        IF Missing(data, "name") \/ Len(Trim(data.name)) < 2
          THEN <<"name must be a string of at least 2 characters">> ELSE <<>>
      emailError ==
        IF Missing(data, "email") \/ ~MatchesEmailRegex(data.email)
          THEN <<"a valid email address is required">> ELSE <<>>
      errors == nameError \o emailError
      cleaned == Spread(data, [name |-> Trim(data.name),
                               email |-> Trim(ToLowerCase(data.email))])
  IN IF c.method \notin {"POST", "PUT"} THEN CallsNext(s, c)
     ELSE IF errors # <<>>                                           \* 数据验证失败
       THEN Stops(s, Reply(c, 400, [error |-> "validation failed", details |-> errors,
                                    status |-> "error"]))
     ELSE CallsNext(s, [c EXCEPT !.request = cleaned])

\* const userValidationSchema: both fields required strings, with lengths
userValidationSchema ==
  [name |-> [required |-> TRUE, minLength |-> 2, maxLength |-> 50],
   email |-> [required |-> TRUE, minLength |-> 5, maxLength |-> 100]]
SchemaFields == <<"name", "email">>

\* The messages createValidationMiddleware collects for one field
FieldErrors(rules, data, field) ==
  IF rules.required /\ Missing(data, field) THEN <<field \o " is required">>
  ELSE IF Missing(data, field) THEN <<>>
  ELSE (IF Len(data[field]) < rules.minLength THEN <<field \o " is too short">> ELSE <<>>)
         \o (IF Len(data[field]) > rules.maxLength THEN <<field \o " is too long">> ELSE <<>>)

\* createValidationMiddleware(schema): 400 with the messages of all fields,
\* else next(); the body is left as it was sent
createValidationMiddleware(schema, s) ==
  LET c == Ran(s.ctx, "createValidationMiddleware")
      errors == FieldErrors(schema[SchemaFields[1]], c.request, SchemaFields[1])
                  \o FieldErrors(schema[SchemaFields[2]], c.request, SchemaFields[2])
  IN IF errors # <<>>
       THEN Stops(s, Reply(c, 400, [error |-> "validation failed", details |-> errors,
                                    status |-> "error"]))
     ELSE CallsNext(s, c)

\* ctx.user ? ctx.user.name : '匿名用户'
Actor(c) == IF c.user # <<>> THEN c.user[1].name ELSE "anonymous"

\* users.find / users.findIndex
IndexOfId(list, id) == {k \in DOMAIN list : list[k].id = id}

\* const { name, email } = ctx.request.body: undefined (here the empty
\* sequence) for a key the body does not have
Field(data, field) == IF field \in DOMAIN data THEN data[field] ELSE <<>>

\* (mutant) a createUser that does not look for the email in the list
demo_createUserUnchecked(s) ==
  LET c == Ran(s.ctx, "createUser")
      newUser == [id |-> s.nextId, name |-> Field(c.request, "name"),
                  email |-> Field(c.request, "email"), createdBy |-> Actor(c)]
  IN [ctx |-> Reply(c, 201, [message |-> "user created", data |-> <<newUser>>,
                             status |-> "success"]),
      users |-> Append(s.users, newUser), nextId |-> s.nextId + 1, next |-> FALSE]

\* createUser (controllers/userController.js): 409 when the email is in the
\* list, else a user with id nextId++ is pushed
demo_createUser(s) ==
  LET c == Ran(s.ctx, "createUser")
      email == Field(c.request, "email")
      newUser == [id |-> s.nextId, name |-> Field(c.request, "name"), email |-> email,
                  createdBy |-> Actor(c)]
  IN IF \E k \in DOMAIN s.users : s.users[k].email = email                 \* 邮箱已被使用
       THEN Stops(s, Reply(c, 409, [error |-> "email in use", status |-> "error"]))
     ELSE [ctx |-> Reply(c, 201, [message |-> "user created", data |-> <<newUser>>,
                                  status |-> "success"]),
           users |-> Append(s.users, newUser), nextId |-> s.nextId + 1, next |-> FALSE]

\* updateUser (controllers/userController.js): 404, 409 when another user has
\* the email, else name and email of the user are replaced
demo_updateUser(s) ==
  LET c == Ran(s.ctx, "updateUser")
      found == IndexOfId(s.users, c.id)
      userIndex == CHOOSE k \in found : TRUE
      email == Field(c.request, "email")
      updated == Spread(s.users[userIndex],
                        [name |-> Field(c.request, "name"), email |-> email,
                         updatedBy |-> Actor(c)])
  IN IF found = {}                                                          \* 用户不存在
       THEN Stops(s, Reply(c, 404, [error |-> "user not found", status |-> "error"]))
     ELSE IF \E k \in DOMAIN s.users : s.users[k].email = email /\ s.users[k].id # c.id
       THEN Stops(s, Reply(c, 409, [error |-> "email used by another user",
                                    status |-> "error"]))
     ELSE [ctx |-> Reply(c, 200, [message |-> "user updated", data |-> <<updated>>,
                                  status |-> "success"]),
           users |-> [s.users EXCEPT ![userIndex] = updated], nextId |-> s.nextId,
           next |-> FALSE]

\* deleteUser (controllers/userController.js): 404, else users.splice(index, 1)
demo_deleteUser(s) ==
  LET c == Ran(s.ctx, "deleteUser")
      found == IndexOfId(s.users, c.id)
      userIndex == CHOOSE k \in found : TRUE
  IN IF found = {}
       THEN Stops(s, Reply(c, 404, [error |-> "user not found", status |-> "error"]))
     ELSE [ctx |-> Reply(c, 200, [message |-> "user deleted", data |-> <<s.users[userIndex]>>,
                                  status |-> "success"]),
           users |-> SubSeq(s.users, 1, userIndex - 1)
                       \o SubSeq(s.users, userIndex + 1, Len(s.users)),
           nextId |-> s.nextId, next |-> FALSE]

\* getAdminStats: 403 unless ctx.user is an admin, else the counts
demo_getAdminStats(s) ==
  LET c == Ran(s.ctx, "getAdminStats")
  IN IF c.user = <<>> \/ c.user[1].role # "admin"
       THEN Stops(s, Reply(c, 403, [error |-> "admin required", status |-> "error"]))
     ELSE Stops(s, Reply(c, 200, [message |-> "admin statistics",
                                  data |-> <<[totalUsers |-> Len(s.users)]>>,
                                  status |-> "success"]))

\* getAllUsers: the whole list
demo_getAllUsers(s) ==
  LET c == Ran(s.ctx, "getAllUsers")
  IN Stops(s, Reply(c, 200, [message |-> "users listed", data |-> <<s.users>>,
                             status |-> "success"]))

\* The routes of the router, each with its chain in the order it is registered
Routes ==
  [list |-> [method |-> "GET", chain |-> <<"optionalAuthMiddleware", "getAllUsers">>],
   stats |-> [method |-> "GET", chain |-> <<"authMiddleware", "getAdminStats">>],
   create |-> [method |-> "POST",
               chain |-> <<"optionalAuthMiddleware", "validateUserData", "createUser">>],
   update |-> [method |-> "PUT",
               chain |-> <<"authMiddleware", "validateUserData", "updateUser">>],
   validated |-> [method |-> "POST",
                  chain |-> <<"authMiddleware", "createValidationMiddleware", "createUser">>],
   delete |-> [method |-> "DELETE", chain |-> <<"authMiddleware", "deleteUser">>]]

\* One element of a chain applied
Apply(name, s) ==
  CASE name = "authMiddleware" -> authMiddleware(s)
    [] name = "optionalAuthMiddleware" -> optionalAuthMiddleware(s)
    [] name = "validateUserData" -> validateUserData(s)
    [] name = "createValidationMiddleware" -> createValidationMiddleware(userValidationSchema, s)
    [] name = "createUser" -> demo_createUser(s)
    [] name = "updateUser" -> demo_updateUser(s)
    [] name = "deleteUser" -> demo_deleteUser(s)
    [] name = "getAdminStats" -> demo_getAdminStats(s)
    [] name = "getAllUsers" -> demo_getAllUsers(s)

\* koa-compose: the next element runs when the one before it called next()
RECURSIVE Compose(_, _)
Compose(chain, s) ==
  IF chain = <<>> THEN s
  ELSE LET r == Apply(Head(chain), s)
       IN IF r.next THEN Compose(Tail(chain), r) ELSE r

\* The context of a request as it enters its route (Koa starts with 404)
Incoming(route, authorization, id, body) ==
  [route |-> route, method |-> Routes[route].method, authorization |-> authorization,
   id |-> id, sent |-> body, request |-> body, user |-> <<>>, status |-> 404, body |-> <<>>,
   ran |-> <<>>]

\* One request through its route
Request(route, authorization, id, body) ==
  LET r == Compose(Routes[route].chain,
                   [ctx |-> Incoming(route, authorization, id, body), users |-> users,
                    nextId |-> demoNextId, next |-> TRUE])
  IN /\ r.nextId <= MaxDemoId + 1
     /\ ctx' = r.ctx
     /\ users' = r.users
     /\ demoNextId' = r.nextId
     /\ UNCHANGED <<rows, nextId, last, pending, steps>>

CarolName == <<"C","a","r","o","l">>
ShortDemoName == <<" ","C"," ">>
CarolMail == <<"c","@","d",".","e","u">>
AliceMailUpper == <<"A","l","i","c","e","@","E","x","a","m","p","l","e",".","c","o","m">>
BadMail == <<"c","a","r","o","l">>

\* Authorization headers: none, the valid token, another token
Authorizations == {<<>>, <<ValidToken>>, <<"Bearer other">>}
\* :id of the request
DemoIds == {1, 3}
\* request bodies
DemoBodies ==
  {[name |-> CarolName, email |-> CarolMail],
   [name |-> CarolName, email |-> AliceMailUpper],
   [name |-> ShortDemoName, email |-> BadMail],
   [name |-> CarolName]}
\* no :id in the path, no body sent
NoParam == <<>>
NoBody == <<>>

NextDemo ==
  \/ \E a \in Authorizations : Request("list", a, NoParam, NoBody)
  \/ \E a \in Authorizations : Request("stats", a, NoParam, NoBody)
  \/ \E a \in Authorizations, body \in DemoBodies : Request("create", a, NoParam, body)
  \/ \E a \in Authorizations, id \in DemoIds, body \in DemoBodies :
       Request("update", a, id, body)
  \/ \E a \in Authorizations, body \in DemoBodies : Request("validated", a, NoParam, body)
  \/ \E a \in Authorizations, id \in DemoIds : Request("delete", a, id, NoBody)

SpecDemo == Init /\ [][NextDemo]_vars

-----------------------------------------------------------------------------
(* Properties *)

HasUppercase(str) == \E k \in DOMAIN str : IsUpper(str[k])

\* C1: in every reachable state of the table, no two rows (soft-deleted rows
\* included) share a username, and no two share an email.
C1_UniqueUsernameAndEmail ==
  \A i, j \in DOMAIN rows :
    i # j => rows[i].username # rows[j].username /\ rows[i].email # rows[j].email

\* C1 witness: a valid createUser for the username of a soft-deleted row was
\* served while another row was in the table, and created nothing.
C1_Witness ==
  /\ last.op = "createUser"
  /\ validateUserCreation(last.args.userData) = <<>>
  /\ ~last.result.success
  /\ Cardinality(DOMAIN rows) = 2
  /\ \E i \in DOMAIN rows :
       rows[i].deleted_at # NoTime /\ rows[i].username = last.args.userData.username

\* C2 as stated: createUser with a username that a stored row holds answers
\* success=false with the username-exists message and leaves the rows unchanged.
C2_Original ==
  [][(/\ last'.op = "createUser"
      /\ \E i \in DOMAIN rows : rows[i].username = last'.args.userData.username)
       => (/\ ~last'.result.success
           /\ last'.result.message = "username exists"
           /\ rows' = rows)]_vars

\* C2 amended: createUser with a username that a stored row holds (soft-deleted
\* rows included) answers success=false and leaves the rows unchanged; the
\* message is the username-exists message when the data passes validation and
\* the holder is not soft-deleted.
C2_UsernameTakenCreatesNothing ==
  [][last'.op = "createUser" =>
       LET d == last'.args.userData
       IN /\ (\E i \in DOMAIN rows : rows[i].username = d.username)
               => ~last'.result.success /\ rows' = rows /\ nextId' = nextId
          /\ (/\ validateUserCreation(d) = <<>>
              /\ \E i \in DOMAIN rows :
                   rows[i].deleted_at = NoTime /\ rows[i].username = d.username)
               => last'.result.message = "username exists"]_vars

\* C2 witness: a createUser was refused with the username-exists message while
\* a visible row holds its username.
C2_Witness ==
  /\ last.op = "createUser"
  /\ last.result.message = "username exists"
  /\ \E i \in DOMAIN rows :
       rows[i].deleted_at = NoTime /\ rows[i].username = last.args.userData.username

\* C4: no stored email has an uppercase letter, and the email a successful
\* createUser or updateUser wrote is the lowercase form of the email supplied.
C4_EmailStoredLowercase ==
  /\ \A i \in DOMAIN rows : ~HasUppercase(rows[i].email)
  /\ (last.op = "createUser" /\ last.result.success)
       => rows[last.result.data[1].id].email = ToLowerCase(last.args.userData.email)
  /\ (last.op = "updateUser" /\ last.result.success /\ "email" \in DOMAIN last.args.updateData)
       => rows[last.args.id].email = ToLowerCase(last.args.updateData.email)

\* C4 witness: an updateUser that supplied an email with uppercase letters
\* succeeded and changed the row's email.
C4_Witness ==
  /\ last.op = "updateUser"
  /\ last.result.success
  /\ "email" \in DOMAIN last.args.updateData
  /\ HasUppercase(last.args.updateData.email)
  /\ last.before[1].email # rows[last.args.id].email

\* The row restore(id) addressed was soft-deleted when restore was called
RestoredFromSoftDelete ==
  last.op = "restore" /\ last.before # <<>> /\ last.before[1].deleted_at # NoTime

HoldsHashOf(id, password) ==
  /\ \E salt \in Salts : rows[id].password_hash = bcrypt_hash(password, salt)
  /\ rows[id].password_hash # password
  /\ bcrypt_compare(password, rows[id].password_hash)

C6_LoginCountNeverDecreases ==
  [][\A i \in DOMAIN rows :
       i \in DOMAIN rows' => rows'[i].login_count >= rows[i].login_count]_vars

\* C6 divergence reached: an accepted updateUser left a row with a smaller
\* login_count than it had.
C6_Decreased ==
  /\ last.op = "updateUser"
  /\ last.result.success
  /\ rows[last.args.id].login_count < last.before[1].login_count

LoginFields == {"last_login_at", "last_login_ip", "login_count"}

\* C7 as stated: last_login_at, last_login_ip and login_count of a row change
\* only in a step where authenticateUser succeeds for that row, and a failing
\* authenticateUser leaves every row unchanged.
C7_LoginFieldsOnlyByLogin ==
  [][/\ \A i \in DOMAIN rows :
          (i \in DOMAIN rows' /\ Pick(rows'[i], LoginFields) # Pick(rows[i], LoginFields))
            => /\ last'.op = "authenticateUser"
               /\ last'.result.success
               /\ last'.result.data[1].id = i
     /\ (last'.op = "authenticateUser" /\ ~last'.result.success) => rows' = rows]_vars

\* C7 divergence reached: an accepted updateUser changed a login field.
C7_ChangedByUpdate ==
  /\ last.op = "updateUser"
  /\ last.result.success
  /\ Pick(rows[last.args.id], LoginFields) # Pick(last.before[1], LoginFields)

\* The two failures of authenticateUser that must not be told apart
UnknownIdentifier(i) == repo_findByUsernameOrEmail(Db, i, FALSE).value = <<>>

WrongPassword(i, p) ==
  LET f == repo_findByUsernameOrEmail(Db, i, FALSE)
  IN /\ f.value # <<>>
     /\ f.value[1].status = "active"
     /\ ~bcrypt_compare(p, f.value[1].password_hash)

\* C8: in every state, authenticateUser for an identifier no user has and
\* authenticateUser for an active user with a wrong password return the same
\* result (the message and errors of the generic failure), the same HTTP status
\* and leave the same table.
C8_FailuresIndistinguishable ==
  \A i1, i2 \in Identifiers, p1, p2 \in Passwords, ip \in Ips, now \in Clock(Db) :
    LET o1 == authenticateUser(Db, i1, p1, ip, now, NoFault)
        o2 == authenticateUser(Db, i2, p2, ip, now, NoFault)
    IN (UnknownIdentifier(i1) /\ WrongPassword(i2, p2))
         => /\ o1.result = o2.result
            /\ o1.result.message = "wrong username or password"
            /\ o1.result.errors = <<"invalid credentials">>
            /\ ctl_authenticateUser(o1) = ctl_authenticateUser(o2)
            /\ o1.db = o2.db

\* C8 witness: a login with a wrong password for an active user was refused
\* while some identifier belongs to no user.
C8_Witness ==
  /\ last.op = "authenticateUser"
  /\ ~last.result.success
  /\ WrongPassword(last.args.identifier, last.args.password)
  /\ \E i \in Identifiers : UnknownIdentifier(i)

ServiceOps ==
  {"createUser", "getUserById", "getUserByUsername", "getUserList", "updateUser",
   "deleteUser", "authenticateUser", "verifyEmail", "getUserStatistics", "searchUsers"}

\* C9: every served call of a UserService method ended with a result whose
\* success flag is a boolean and whose failure carries a message and a list of
\* errors; no exception left the method, so no handler answered 500.
C9_ServiceAlwaysReturns ==
  last.op \in ServiceOps
    => /\ ~last.threw
       /\ last.result.success \in BOOLEAN
       /\ ~last.result.success => last.result.message # "" /\ last.result.data = <<>>
       /\ last.status # 500

\* C9 witness: an updateUser passed its existence check, the user was deleted
\* before its write, userRepository.update reported not-found, and the method
\* returned a failure.
C9_Witness ==
  /\ last.op = "updateUser"
  /\ last.before # <<>>
  /\ last.before[1].deleted_at = NoTime
  /\ last.args.id \notin Visible(Db)
  /\ last.result.errors = <<NullDeref>>
  /\ ~last.result.success

\* The request addressed a user that did not exist when it arrived
AddressedNoUser ==
  last.before = <<>> \/ last.before[1].deleted_at # NoTime

AnsweredByStore(served) ==
  LET a == served.args
      now == CHOOSE t \in Clock(Db) : TRUE
      salt == CHOOSE x \in Salts : TRUE
  IN CASE served.op = "createUser" -> createUser(Db, a.userData, salt, NoFault).result
       [] served.op = "getUserById" -> getUserById(Db, a.id, a.includePrivate, NoFault).result
       [] served.op = "getUserByUsername" -> getUserByUsername(Db, a.username, NoFault).result
       [] served.op = "deleteUser" -> deleteUser(Db, a.id, now, NoFault).result
       [] served.op = "authenticateUser"
            -> authenticateUser(Db, a.identifier, a.password, a.loginIp, now, NoFault).result
       [] OTHER -> served.result

\* C11 as stated: a request during which a data-store call fails (it is
\* answered otherwise than it would be by a store that answers) gets status
\* 500, never 400, 401 or 404.
C11_StoreFailureAnswers500 ==
  [][last'.result # AnsweredByStore(last') => last'.status = 500]_vars

\* C11 divergence reached: getUserById for a stored, visible user was answered
\* with 404 because the lookup failed in the store.
C11_StoreFailureAnswered404 ==
  /\ last.op = "getUserById"
  /\ last.before # <<>>
  /\ last.before[1].deleted_at = NoTime
  /\ last.status = 404
  /\ last.result.message = "get user failed"

PublicFields == {"id", "username", "email", "full_name", "status", "email_verified"}

\* The user objects in the data of a served request
UsersReturned(served) ==
  IF served.result.data = <<>> THEN {}
  ELSE IF served.op \in {"getUserList", "searchUsers"}
    THEN Range(served.result.data[1].users)
  ELSE {served.result.data[1]}

\* C12: the users in the data returned by createUser, getUserById with
\* includePrivate=false, getUserByUsername, getUserList, updateUser,
\* authenticateUser, verifyEmail and searchUsers are public projections of
\* stored rows: they have the public fields only, never password_hash.
C12_PublicProjectionOnly ==
  (/\ last.op \in {"createUser", "getUserById", "getUserByUsername", "getUserList",
                   "updateUser", "authenticateUser", "verifyEmail", "searchUsers"}
   /\ last.op = "getUserById" => ~last.args.includePrivate)
    => \A u \in UsersReturned(last) :
         /\ "password_hash" \notin DOMAIN u
         /\ DOMAIN u = PublicFields
         /\ u.id \in DOMAIN rows
         /\ u = Pick(rows[u.id], PublicFields)

\* C12 witness: a user was created and then fetched by id with
\* includePrivate=false; the row has a password hash and the data returned is
\* that row's projection.
C12_Witness ==
  /\ last.op = "getUserById"
  /\ ~last.args.includePrivate
  /\ last.result.success
  /\ UsersReturned(last) # {}
  /\ IsBcryptHash(rows[last.args.id].password_hash)

\* C13 as stated: when the deployment is not in development mode, the body
\* answered to a request during which a data-store call failed carries no
\* error text (the service's errors hold the message of the error it caught).
C13_NoInternalErrorText ==
  [][\A mode \in Modes \ {"development"} :
       last'.result # AnsweredByStore(last')
         => ctl_body(last'.op, last', mode).errors = <<>>]_vars

\* C13 divergence reached: in production mode the body of a 400 answer to
\* createUser carries the message of the data-store error.
C13_StoreErrorInBody ==
  /\ last.op = "createUser"
  /\ last.status = 400
  /\ ctl_body(last.op, last, "production").errors
       = <<Wrap("check username failed", Threw(Db, StoreFailure)).error>>

\* ceil(n / d) for n >= 0, d >= 1, by its definition
CeilDiv(n, d) == CHOOSE k \in 0..n : k * d >= n /\ (k = 0 \/ (k - 1) * d < n)

\* C14: findAll({page, limit}) with page >= 1 and limit in 1..100 on a table
\* of N visible users returns min(limit, max(0, N - (page-1)*limit)) users and
\* the pagination total = N, the page, the limit, totalPages = ceil(N / limit).
C14_PageSizeAndCounts ==
  last.op = "findAll"
    => LET N == Cardinality(Visible(Db))
           page == last.args.page
           limit == last.args.limit
           rest == N - (page - 1) * limit
           found == last.result.data[1]
       IN /\ page >= 1 /\ limit \in 1..MaxLimit
          /\ Len(found.users) = IF rest <= 0 THEN 0 ELSE IF limit < rest THEN limit ELSE rest
          /\ found.pagination = [total |-> N, page |-> page, limit |-> limit,
                                 totalPages |-> CeilDiv(N, limit)]
          /\ \A k \in DOMAIN found.users : found.users[k].deleted_at = NoTime

\* C14 witness: page 2 of five visible users by three: the two left over,
\* totalPages 2.
C14_Witness ==
  /\ last.op = "findAll"
  /\ Cardinality(Visible(Db)) = 5
  /\ last.args = [page |-> 2, limit |-> 3]
  /\ Len(last.result.data[1].users) = 2
  /\ last.result.data[1].pagination.totalPages = 2

\* C15: getStatistics returns total, active and verified equal to the number
\* of visible users, of those with status "active" and of those with
\* email_verified true; on a table without visible users every count is 0 and
\* verificationRate is the number 0, otherwise it is a formatted string.
C15_StatisticsCountVisible ==
  last.op = "getStatistics"
    => LET stats == last.result.data[1]
           live == {i \in DOMAIN rows : rows[i].deleted_at = NoTime}
       IN /\ stats.total = Cardinality(live)
          /\ stats.active = Cardinality({i \in live : rows[i].status = "active"})
          /\ stats.verified = Cardinality({i \in live : rows[i].email_verified})
          /\ live = {} => /\ stats.total = 0 /\ stats.active = 0 /\ stats.verified = 0
                          /\ stats.verificationRate = [type |-> "number", hundredths |-> 0]
          /\ live # {} => stats.verificationRate.type = "string"

\* C15 witness: statistics of a table with soft-deleted rows and visible rows
\* of which some are not active and some not verified.
C15_Witness ==
  /\ last.op = "getStatistics"
  /\ \E i \in DOMAIN rows : rows[i].deleted_at # NoTime
  /\ last.result.data[1].total >= 2
  /\ last.result.data[1].active < last.result.data[1].total
  /\ last.result.data[1].verified < last.result.data[1].total
  /\ last.result.data[1].verified > 0

\* C16: a deleteUser(id) that follows a successful deleteUser(id) returns the
\* user-not-found failure and leaves the table as it was.
C16_SecondDeleteNotFound ==
  [][(/\ last.op = "deleteUser" /\ last.result.success
      /\ last'.op = "deleteUser" /\ last'.args.id = last.args.id)
       => (/\ ~last'.result.success
           /\ last'.result.message = "user not found"
           /\ last'.result.errors = <<"the given user does not exist">>
           /\ rows' = rows /\ nextId' = nextId)]_vars

\* C16 witness: deleteUser was answered with user-not-found for a row that
\* was soft-deleted when the call arrived, and the row is as it was.
C16_Witness ==
  /\ last.op = "deleteUser"
  /\ last.before # <<>>
  /\ last.before[1].deleted_at # NoTime
  /\ last.result.message = "user not found"
  /\ rows[last.args.id] = last.before[1]

\* The ids of rows that were hard-deleted (keys are never given out twice)
HardDeleted == (1..(nextId - 1)) \ DOMAIN rows

\* C17: hardDelete(id) of a stored row, live or soft-deleted, returns true and
\* removes the row; from then on restore(id) and findById(id) report
\* not-found and change nothing.
C17_HardDeleteRemovesRow ==
  /\ (last.op = "hardDelete" /\ last.before # <<>>)
       => last.result.data = <<TRUE>> /\ last.args.id \in HardDeleted
  /\ \A id \in HardDeleted :
       /\ repo_restore(Db, id, FALSE) = Returned(Db, <<>>)
       /\ repo_findById(Db, id, FALSE) = Returned(Db, <<>>)
  /\ (last.op \in {"restore", "findById"} /\ last.args.id \in HardDeleted)
       => last.result.data = <<>>

\* C17 witness: a soft-deleted row was hard-deleted.
C17_Witness ==
  /\ last.op = "hardDelete"
  /\ last.before # <<>>
  /\ last.before[1].deleted_at # NoTime
  /\ last.result.data = <<TRUE>>
  /\ last.args.id \notin DOMAIN rows

\* The step answers a verifyEmail request (a request that starts to wait for
\* its write answers nothing)
AnswersVerifyEmail == last'.op = "verifyEmail" /\ pending' \subseteq pending

\* C18: verifyEmail(id) succeeds only for an existing user whose
\* email_verified is false, and then the row is verified with a timestamp;
\* for a verified user it fails with 'email already verified' (邮箱已验证) and
\* leaves email_verified_at as it was; so in any sequence or interleaving of
\* verifyEmail calls a user is verified successfully at most once.
C18_VerifiedAtMostOnce ==
  [][AnswersVerifyEmail =>
       LET id == last'.args.id
       IN IF last'.result.success
            THEN /\ id \in DOMAIN rows
                 /\ ~rows[id].email_verified
                 /\ rows'[id].email_verified
                 /\ rows'[id].email_verified_at # NoTime
            ELSE (/\ id \in DOMAIN rows /\ rows[id].deleted_at = NoTime
                  /\ rows[id].email_verified
                  /\ last'.result.message # "verify email failed")
                   => /\ last'.result.message = "email already verified"
                      /\ rows'[id].email_verified_at = rows[id].email_verified_at]_vars

\* C18 divergence reached: a verifyEmail request that passed its check waits
\* for its write while the user's email has been verified by another request.
C18_SecondVerificationWaits ==
  \E req \in pending :
    /\ req.op = "verifyEmail"
    /\ req.before # <<>>
    /\ ~req.before[1].email_verified
    /\ req.id \in DOMAIN rows
    /\ rows[req.id].email_verified
    /\ rows[req.id].deleted_at = NoTime

\* Another user, not soft-deleted, holds the value in the column
HeldByOther(id, column, value) ==
  \E j \in Visible(Db) \ {id} : rows[j][column] = value

\* C19: an updateUser of a stored user with valid data that would change the
\* username, or the email, to a value held by a different non-deleted user
\* fails with 'username exists' (用户名已存在), or 'email exists' (邮箱已存在),
\* and changes nothing in the store; an update that supplies the user's own
\* username, or own email in any letter case, is not rejected as a conflict
\* of that field.
C19_UpdateKeepsUnique ==
  [][(/\ last'.op = "updateUser"
      /\ last'.args.id \in Visible(Db)
      /\ validateUserUpdate(last'.args.updateData) = <<>>)
       => LET id == last'.args.id
              data == last'.args.updateData
              own == rows[id]
              newName == "username" \in DOMAIN data /\ data.username # own.username
              newMail == "email" \in DOMAIN data
                           /\ ToLowerCase(data.email) # ToLowerCase(own.email)
          IN /\ (newName /\ HeldByOther(id, "username", data.username))
                  => /\ last'.result.message = "username exists"
                     /\ ~last'.result.success
                     /\ rows' = rows /\ nextId' = nextId
             /\ (newMail /\ ~newName /\ HeldByOther(id, "email", ToLowerCase(data.email)))
                  => /\ last'.result.message = "email exists"
                     /\ ~last'.result.success
                     /\ rows' = rows /\ nextId' = nextId
             /\ ("username" \in DOMAIN data /\ ~newName)
                  => last'.result.message # "username exists"
             /\ ("email" \in DOMAIN data /\ ~newMail)
                  => last'.result.message # "email exists"]_vars

\* C19 witness: the user's own email was sent in upper case while another
\* user is stored, and the update was served with success.
C19_Witness ==
  /\ last.op = "updateUser"
  /\ last.before # <<>>
  /\ "email" \in DOMAIN last.args.updateData
  /\ HasUppercase(last.args.updateData.email)
  /\ ToLowerCase(last.args.updateData.email) = last.before[1].email
  /\ Visible(Db) \ {last.args.id} # {}
  /\ last.result.success

\* C19 witness of the refusal: an update to another user's email was refused
\* with 'email exists'.
C19_ConflictRefused ==
  /\ last.op = "updateUser"
  /\ last.result.message = "email exists"
  /\ HeldByOther(last.args.id, "email", ToLowerCase(last.args.updateData.email))

\* The service methods other than createUser and authenticateUser
RepeatableOps ==
  {"updateUser", "deleteUser", "verifyEmail", "getUserById", "getUserByUsername",
   "getUserList", "searchUsers", "getUserStatistics"}

\* The step serves the call that was served last, with the same arguments
Repeated == last.op \in RepeatableOps /\ last'.op = last.op /\ last'.args = last.args

Handled == "downstream" \in DOMAIN ctx

\* C21: for any value thrown by the downstream middleware (an Error with
\* status, with statusCode, with neither, with status 0, a non-Error value,
\* null or undefined) errorHandler completes without throwing, the status is
\* the value's status, else its statusCode, else 500, and the body is
\* {success: false, message} with 'Internal Server Error' when the value has
\* no message; when nothing is thrown, status and body are as the downstream
\* code set them.
C21_ErrorHandlerAnswers ==
  Handled =>
    /\ ctx.raised = <<>>
    /\ ctx.downstream.threw =>
         LET v == ctx.downstream.value
             status == IF v.status \notin {<<>>, <<0>>} THEN v.status[1]
                       ELSE IF v.statusCode \notin {<<>>, <<0>>} THEN v.statusCode[1]
                       ELSE 500
             message == IF v.message \in {<<>>, <<"">>} THEN "Internal Server Error"
                        ELSE v.message[1]
         IN /\ ctx.status = status
            /\ ctx.body = [success |-> FALSE, message |-> message]
    /\ ~ctx.downstream.threw =>
         [status |-> ctx.status, body |-> ctx.body] = ctx.given

\* C21 divergence reached: null was thrown downstream and errorHandler
\* raised a TypeError, leaving status and body as they were.
C21_NullRaisesTypeError ==
  /\ Handled
  /\ ctx.downstream.threw
  /\ ctx.downstream.value.type = "null"
  /\ ctx.raised = <<"TypeError">>
  /\ ctx.status = 200

\* The steps of initializeDatabase in the order of the source
InitializeOrder == <<"ensureDatabaseDirectory", "testDatabaseConnection", "syncDatabase">>

\* The call to fn was made and succeeded
Succeeded(fn) == \E k \in DOMAIN steps.calls : steps.calls[k] = [fn |-> fn, ok |-> TRUE]

\* C22: initializeDatabase makes its calls in the order ensure-directory,
\* test-connection, sync-models and makes no call after a failed one (no sync
\* after a failed connection test); when it is done it has returned true if
\* the connection test and the sync both succeeded and false otherwise, and
\* it has not thrown.
C22_InitializeInOrder ==
  /\ Len(steps.calls) <= Len(InitializeOrder)
  /\ \A k \in DOMAIN steps.calls :
       /\ steps.calls[k].fn = InitializeOrder[k]
       /\ k < Len(steps.calls) => steps.calls[k].ok
  /\ ~steps.threw
  /\ steps.pc = "done" =>
       steps.returned = <<Succeeded("testDatabaseConnection") /\ Succeeded("syncDatabase")>>
  /\ steps.pc # "done" => steps.returned = <<>>

\* C22 witness: the connection test failed, initializeDatabase returned false
\* and sync was not called.
C22_Witness ==
  /\ steps.pc = "done"
  /\ steps.returned = <<FALSE>>
  /\ steps.calls[Len(steps.calls)] = [fn |-> "testDatabaseConnection", ok |-> FALSE]
  /\ ~steps.env.syncFails

\* The characters of the seeded usernames in the order of their codes
\* (SQLite compares text byte by byte)
CharOrder == <<"0", "1", "2", "3", "4", "5", "6", "7", "8", "9", "r", "s", "u">>
CharCode(c) == CHOOSE k \in DOMAIN CharOrder : CharOrder[k] = c

\* a sorts before b, or is b
RECURSIVE SortsUpTo(_, _)
SortsUpTo(a, b) ==
  IF a = <<>> THEN TRUE
  ELSE IF b = <<>> THEN FALSE
  ELSE IF CharCode(Head(a)) # CharCode(Head(b)) THEN CharCode(Head(a)) < CharCode(Head(b))
  ELSE SortsUpTo(Tail(a), Tail(b))

\* findAll was called with sortBy 'username' and sortOrder 'ASC'
AskedByUsername ==
  /\ last.op = "findAll"
  /\ "sortBy" \in DOMAIN last.args
  /\ last.args.sortBy = "username"
  /\ last.args.sortOrder = "ASC"

\* C23: findAll with sortBy = 'username' and sortOrder = 'ASC' returns the
\* users in ascending order of username, whatever order they were created in.
C23_SortedByUsername ==
  AskedByUsername =>
    LET found == last.result.data[1].users
    IN \A j, k \in DOMAIN found : j < k => SortsUpTo(found[j].username, found[k].username)

\* C23 divergence reached: the users were created in ascending order of
\* username and findAll, asked for that order, returned them newest first.
C23_ReturnedNewestFirst ==
  /\ AskedByUsername
  /\ Len(last.result.data[1].users) >= 2
  /\ last.result.data[1].users[1].id > last.result.data[1].users[2].id
  /\ ~SortsUpTo(last.result.data[1].users[1].username, last.result.data[1].users[2].username)

\* The routes that start with authMiddleware
GuardedRoutes == {"stats", "update", "validated", "delete"}

\* The body as it was sent passes the validation middleware of the route
PassesValidation(route, sent) ==
  CASE route = "update" ->
         /\ "name" \in DOMAIN sent /\ Len(Trim(sent.name)) >= 2
         /\ "email" \in DOMAIN sent /\ MatchesEmailRegex(sent.email)
    [] route = "validated" ->
         /\ "name" \in DOMAIN sent /\ Len(sent.name) \in 2..50
         /\ "email" \in DOMAIN sent /\ Len(sent.email) \in 5..100
    [] OTHER -> TRUE

\* C24: on GET /admin/stats, PUT /:id, POST /validated and DELETE /:id the
\* functions that ran are a prefix of the route's chain; the controller ran
\* only if the Authorization header is 'Bearer valid-token' and the body
\* passed the validation middleware before it; otherwise the chain stopped
\* at the failing middleware with 401 (authMiddleware) or 400 (validation),
\* and the in-memory list and its id counter are unchanged.
C24_ChainShortCircuits ==
  [][ctx'.route \in GuardedRoutes =>
       LET c == ctx'
           chain == Routes[c.route].chain
           n == Len(c.ran)
       IN /\ n \in 1..Len(chain)
          /\ c.ran = SubSeq(chain, 1, n)
          /\ n = Len(chain) => /\ c.authorization = <<ValidToken>>
                               /\ PassesValidation(c.route, c.sent)
          /\ n < Len(chain) =>
               /\ users' = users
               /\ demoNextId' = demoNextId
               /\ IF c.ran[n] = "authMiddleware"
                    THEN c.status = 401 /\ c.authorization # <<ValidToken>>
                    ELSE /\ c.status = 400
                         /\ c.authorization = <<ValidToken>>
                         /\ ~PassesValidation(c.route, c.sent)]_vars

\* C24 witness: PUT /:id with the valid token and a body that fails
\* validateUserData stopped there with 400, before updateUser.
C24_Witness ==
  /\ "route" \in DOMAIN ctx
  /\ ctx.route = "update"
  /\ ctx.authorization = <<ValidToken>>
  /\ ctx.ran = <<"authMiddleware", "validateUserData">>
  /\ ctx.status = 400

\* C24 witness of the refusal by authMiddleware: DELETE /:id of a listed user
\* without the valid token was answered 401 and the user is still listed.
C24_Unauthorized ==
  /\ "route" \in DOMAIN ctx
  /\ ctx.route = "delete"
  /\ ctx.ran = <<"authMiddleware">>
  /\ ctx.status = 401
  /\ IndexOfId(users, ctx.id) # {}

\* C30: in the in-memory list, after any sequence of createUser, updateUser
\* and deleteUser calls reached through their routes, the ids are pairwise
\* distinct and smaller than nextId (the id of a deleted user is not handed
\* out again), and no two users have the same email.
C30_DemoIdsAndEmailsUnique ==
  /\ \A j, k \in DOMAIN users :
       j # k => users[j].id # users[k].id /\ users[j].email # users[k].email
  /\ \A k \in DOMAIN users : users[k].id < demoNextId

\* C30 witness: a created user was deleted and the user created after that
\* got the next id, not the one set free.
C30_Witness ==
  /\ demoNextId = 5
  /\ IndexOfId(users, 3) = {}
  /\ IndexOfId(users, 4) # {}
  /\ Len(users) = 3

\* A user that is not soft-deleted holds the value in the column: what the
\* existence checks of the repository see
Taken(column, value) == \E i \in Visible(Db) : rows[i][column] = value

\* C25: createUser checks in the order validation, username, email: input
\* that fails validation gets 'validation failed' (数据验证失败) also when its
\* username or email is taken; valid input whose username is taken gets
\* 'username exists' (用户名已存在) also when its email is taken too; valid
\* input with a free username and a taken email gets 'email exists'; on each
\* of these failures nothing was hashed or handed to the repository and the
\* table is unchanged.
C25_CreateChecksInOrder ==
  [][last'.op = "createUser" =>
       LET d == last'.args.userData
           invalid == validateUserCreation(d) # <<>>
           nameTaken == Taken("username", d.username)
           mailTaken == Taken("email", ToLowerCase(d.email))
       IN /\ invalid => last'.result.message = "validation failed"
          /\ (~invalid /\ nameTaken) => last'.result.message = "username exists"
          /\ (~invalid /\ ~nameTaken /\ mailTaken) => last'.result.message = "email exists"
          /\ (invalid \/ nameTaken \/ mailTaken)
               => /\ ~last'.result.success
                  /\ last'.handed = <<>>
                  /\ rows' = rows /\ nextId' = nextId]_vars

\* C25 witness: valid input whose username and email are both held by a
\* stored user was refused with the username message.
C25_Witness ==
  /\ last.op = "createUser"
  /\ validateUserCreation(last.args.userData) = <<>>
  /\ Taken("username", last.args.userData.username)
  /\ Taken("email", ToLowerCase(last.args.userData.email))
  /\ last.result.message = "username exists"
  /\ last.handed = <<>>

\* C25 witness of the first check: input that fails validation and whose
\* username is held by a stored user was refused with 'validation failed'.
C25_InvalidAndTaken ==
  /\ last.op = "createUser"
  /\ Taken("username", last.args.userData.username)
  /\ last.result.message = "validation failed"

-----------------------------------------------------------------------------
(* Who may log in                                                         *)

\* The users that are not soft-deleted and that the identifier names, by
\* username or by lowercased email
Named(identifier) ==
  {i \in Visible(Db) : \/ rows[i].username = identifier
                       \/ rows[i].email = ToLowerCase(identifier)}

\* C26: authenticateUser returns success only if the identifier names, by
\* username or by lowercased email, a user that is not soft-deleted, whose
\* status is "active" and whose stored hash the password matches; for a named
\* user whose status is not "active" it returns the account-disabled failure
\* whether the password is right or wrong.
C26_LoginOnlyForActiveUser ==
  [][last'.op = "authenticateUser" =>
       LET a == last'.args
       IN /\ last'.result.success
               => \E i \in Named(a.identifier) :
                     /\ rows[i].status = "active"
                     /\ bcrypt_compare(a.password, rows[i].password_hash)
          /\ \A i \in Named(a.identifier) :
               rows[i].status # "active"
                 => /\ ~last'.result.success
                    /\ last'.result.message = "account disabled"]_vars

\* C26 witness: a login of a user that is not active was refused as disabled
\* although the password was the user's own.
C26_Witness ==
  /\ last.op = "authenticateUser"
  /\ last.result.message = "account disabled"
  /\ \E i \in Named(last.args.identifier) :
       /\ rows[i].status = "inactive"
       /\ bcrypt_compare(last.args.password, rows[i].password_hash)

\* A login of a user that is not active was refused as disabled with a
\* password that is not the user's.
C26_DisabledWithWrongPassword ==
  /\ last.op = "authenticateUser"
  /\ last.result.message = "account disabled"
  /\ \E i \in Named(last.args.identifier) :
       ~bcrypt_compare(last.args.password, rows[i].password_hash)

\* A login by the email in another case succeeded.
C26_LoginByUppercaseEmail ==
  /\ last.op = "authenticateUser"
  /\ last.result.success
  /\ \E i \in Named(last.args.identifier) : rows[i].username # last.args.identifier

-----------------------------------------------------------------------------
(* Overlapping creations                                                  *)

\* The rows, soft-deleted ones included, that hold the username or the
\* lowercased email of the data
Holders(userData) ==
  {i \in DOMAIN rows : \/ rows[i].username = userData.username
                       \/ rows[i].email = ToLowerCase(userData.email)}

\* This step answers a createUser request: no request is left waiting by it
\* and the answer is a new one (a success names a new id, so it always is)
AnswersCreateUser ==
  /\ last'.op = "createUser"
  /\ pending' \subseteq pending
  /\ last' # last

\* C27: of createUser requests with the same username or the same email whose
\* existence checks and inserts interleave, at most one succeeds, and at most
\* one record holds that username or email afterwards.
C27_OneCreationWins ==
  [][AnswersCreateUser =>
       LET d == last'.args.userData
       IN /\ last'.result.success
               => /\ Holders(d) = {}
                  /\ nextId' = nextId + 1
                  /\ DOMAIN rows' = DOMAIN rows \cup {nextId}
          /\ \A i, j \in DOMAIN rows' :
               (i # j) => /\ rows'[i].username # rows'[j].username
                          /\ rows'[i].email # rows'[j].email]_vars

\* C27 witness: a request passed both existence checks, another request then
\* created a user with its username, and its own insert was refused.
C27_Witness ==
  /\ last.op = "createUser"
  /\ last.handed # <<>>
  /\ ~last.result.success
  /\ last.result.message = "create user failed"
  /\ \E i \in Visible(Db) : rows[i].username = last.args.userData.username

-----------------------------------------------------------------------------
(* Counting logins                                                        *)

\* This step answers an authenticateUser request with success
AnswersLogin ==
  /\ last'.op = "authenticateUser"
  /\ last'.result.success
  /\ pending' \subseteq pending
  /\ last' # last

\* The user a successful login returned
LoggedIn(served) == served.result.data[1].id

\* C28: every successful authenticateUser raises the stored login_count of
\* its user by one, whether the calls follow each other or their read and
\* save steps interleave, so that k successes leave the initial value plus k.
C28_EveryLoginCounts ==
  [][AnswersLogin =>
       LET id == LoggedIn(last')
       IN /\ id \in DOMAIN rows
          /\ rows'[id].login_count = rows[id].login_count + 1]_vars

\* A login waits to save an instance it loaded before another login of the
\* same user was counted: the count it will write is the one stored by now.
C28_OverlappingLogins ==
  \E req \in pending :
    /\ req.op = "authenticateUser"
    /\ last.op = "authenticateUser"
    /\ last.result.success
    /\ LoggedIn(last) = req.user.id
    /\ rows[req.user.id].login_count = req.user.login_count + 1

-----------------------------------------------------------------------------
(* Soft-deleted users                                                     *)

\* Row i is soft-deleted
Gone(i) == i \in DOMAIN rows /\ rows[i].deleted_at # NoTime

\* The methods that address one user
ByIdOps == {"getUserById", "updateUser", "deleteUser", "verifyEmail"}

\* The request served addresses row i: by id, by username or by identifier
Addresses(served, i) ==
  \/ served.op \in ByIdOps /\ served.args.id = i
  \/ served.op = "getUserByUsername" /\ served.args.username = rows[i].username
  \/ /\ served.op = "authenticateUser"
     /\ \/ served.args.identifier = rows[i].username
        \/ ToLowerCase(served.args.identifier) = rows[i].email

\* The ids of the users a list or a search returned
Listed(served) ==
  {served.result.data[1].users[k].id : k \in DOMAIN served.result.data[1].users}

\* C29: getUserById, getUserByUsername, updateUser, deleteUser, verifyEmail
\* and authenticateUser report failure for a soft-deleted user and leave its
\* record unchanged, also when the soft delete came between the operation's
\* existence check and its write; getUserList and searchUsers do not return
\* the user.
C29_SoftDeletedStaysGone ==
  [][(pending' \subseteq pending) =>
       /\ \A i \in DOMAIN rows :
            (Gone(i) /\ Addresses(last', i))
              => /\ ~last'.result.success
                 /\ rows'[i] = rows[i]
       /\ (last'.op \in {"getUserList", "searchUsers"} /\ last'.result.success)
            => \A i \in Listed(last') : ~Gone(i)]_vars

\* A login has succeeded for a user that was soft-deleted after the login had
\* loaded it, and the soft-deleted record holds the login that was saved.
C29_LoginOfDeletedUser ==
  /\ last.op = "authenticateUser"
  /\ last.result.success
  /\ Gone(LoggedIn(last))
  /\ last.before[1].deleted_at = NoTime
  /\ rows[LoggedIn(last)].login_count = last.before[1].login_count + 1
====
